---------------------------- MODULE Spec2Model ----------------------------
(***************************************************************************)
(* A model of the Gutenberg -> Wikipedia article pipeline:                 *)
(*   get_wiki_articles.py      the primary fetch pipeline                  *)
(*   retry_failed.py           the retry pass with the diagnostic fetch    *)
(*   validate_wiki_articles.py the validation pipeline                     *)
(* Text (URLs, filenames, keys) is modelled as sequences of one-character  *)
(* strings so that formatting and regex parsing are computed, not assumed. *)
(***************************************************************************)
EXTENDS Integers, Sequences, FiniteSets, TLC

(***************************************************************************)
(* Bounds of the model.                                                    *)
(***************************************************************************)
\* the longest run of consecutive 429/503 answers the remote gives
MaxThrottled == 4

(***************************************************************************)
(* Program constants.                                                      *)
(***************************************************************************)
MAX_RETRIES == 3
\* the delays, were the last one longer
RETRY_DELAYS_Long == <<5, 15, 60>>

RETRY_DELAYS == <<5, 15, 45>>

(***************************************************************************)
(* The remote content API, as seen by one call of the fetch adapter.       *)
(* A script is what the remote answers to the successive extract requests  *)
(* of one call: a run of throttled answers (429/503), then the answer      *)
(* `final` to every later request, and the answer `rev` to the             *)
(* raw-revision request of the diagnostic variant.                         *)
(***************************************************************************)
Throttled == {429, 503}

\* the body of an HTTP answer, by what the adapters read of it
Bodies ==
    {[json |-> FALSE, pages |-> FALSE, missing |-> FALSE, invalid |-> FALSE,
      extract |-> FALSE, disambiguation |-> FALSE],
     [json |-> TRUE, pages |-> FALSE, missing |-> FALSE, invalid |-> FALSE,
      extract |-> FALSE, disambiguation |-> FALSE]}
    \cup [json : {TRUE}, pages : {TRUE}, missing : BOOLEAN, invalid : BOOLEAN,
          extract : BOOLEAN, disambiguation : BOOLEAN]

NoBody == [json |-> FALSE, pages |-> FALSE, missing |-> FALSE, invalid |-> FALSE,
           extract |-> FALSE, disambiguation |-> FALSE]

\* the status codes of the model besides 429 and 503: 200 OK, 304 as a 3xx that
\* requests hands back to its caller, 404 and 500 as client and server errors
OtherStatusCodes == {200, 304, 404, 500}

\* answers that are not 429/503: transport failures and HTTP answers
FinalResponses ==
    {[kind |-> "timeout", status_code |-> 0, body |-> NoBody],
     [kind |-> "connection", status_code |-> 0, body |-> NoBody]}
    \cup [kind : {"http"}, status_code : OtherStatusCodes, body : Bodies]

ThrottledResponse(code) == [kind |-> "http", status_code |-> code, body |-> NoBody]

\* answers to the raw-revision request (its status code is never looked at)
RevResponses ==
    {"timeout", "connection", "bad_json", "no_pages", "no_revisions",
     "size_zero", "redirect", "content"}

ThrottleRuns == UNION {[1..n -> Throttled] : n \in 0..MaxThrottled}

Scripts == [throttles : ThrottleRuns, final : FinalResponses, rev : RevResponses]

\* the answer to the n-th extract request of a call
ResponseAt(script, n) ==
    IF n <= Len(script.throttles)
    THEN ThrottledResponse(script.throttles[n])
    ELSE script.final

(***************************************************************************)
(* requests' Response.raise_for_status(): raises for 4xx and 5xx only.     *)
(***************************************************************************)
raise_for_status_Only4xx(response) ==
    response.status_code >= 400 /\ response.status_code < 500

raise_for_status(response) ==
    response.status_code >= 400 /\ response.status_code < 600

(***************************************************************************)
(* A result of the fetch adapter: the returned tuple, with the extract     *)
(* requests and raw-revision requests made and the backoff sleeps taken on *)
(* the way.                                                                *)
(***************************************************************************)
Result(ok, text, diag, nrev) ==
    [success |-> ok, result |-> text, diagnostics |-> diag,
     requests |-> 1, rev_requests |-> nrev, sleeps |-> <<>>]

\* a retry: sleep wait_time, then the result of the recursive call
AfterSleep(wait_time, r) ==
    [r EXCEPT !.requests = @ + 1, !.sleeps = <<wait_time>> \o @]

MayRetry_Short(retry_count) == retry_count < MAX_RETRIES - 1

\* `if retry_count < MAX_RETRIES`
MayRetry(retry_count) == retry_count < MAX_RETRIES

\* the primary fetch returns no diagnostics
NoDiag == {}

RECURSIVE fetch_wikipedia_content(_, _)
fetch_wikipedia_content(script, retry_count) ==
    LET response == ResponseAt(script, retry_count + 1) IN
    IF response.kind = "timeout"
    THEN Result(FALSE, "Request timeout after 30s", NoDiag, 0)
    ELSE IF response.kind = "connection"
    THEN Result(FALSE, "Connection error", NoDiag, 0)
    ELSE IF response.status_code = 429
    THEN IF MayRetry(retry_count)
         THEN AfterSleep(RETRY_DELAYS[retry_count + 1],
                         fetch_wikipedia_content(script, retry_count + 1))
         ELSE Result(FALSE, "Rate limited - max retries exceeded", NoDiag, 0)
    ELSE IF response.status_code = 503
    THEN IF MayRetry(retry_count)
         THEN AfterSleep(RETRY_DELAYS[retry_count + 1],
                         fetch_wikipedia_content(script, retry_count + 1))
         ELSE Result(FALSE, "Service unavailable - max retries exceeded", NoDiag, 0)
    ELSE IF raise_for_status(response)
    THEN Result(FALSE, "Request error: HTTPError", NoDiag, 0)
    ELSE IF ~response.body.json
    \* requests >= 2.27 raises its own JSONDecodeError, a RequestException
    THEN Result(FALSE, "Request error: JSONDecodeError", NoDiag, 0)
    ELSE IF ~response.body.pages
    THEN Result(FALSE, "Empty API response", NoDiag, 0)
    ELSE IF response.body.missing
    THEN Result(FALSE, "Page does not exist (404)", NoDiag, 0)
    ELSE IF ~response.body.extract
    THEN Result(FALSE, "Empty article content", NoDiag, 0)
    ELSE Result(TRUE, "content", NoDiag, 0)

(***************************************************************************)
(* retry_failed.py: the raw-revision part of diagnose_and_fetch, reached   *)
(* when the extract is empty and the page is no disambiguation page.       *)
(***************************************************************************)
raw_revision_Unclassified(rev, diagnostics) ==
    Result(FALSE, "Empty article content", diagnostics, 0)

raw_revision(rev, diagnostics) ==
    CASE rev = "connection" -> Result(FALSE, "Connection error", {"connection_error"}, 1)
      [] rev = "timeout" -> Result(FALSE, "Request timeout after 30s", {"timeout"}, 1)
      [] rev \in {"bad_json", "no_pages"} ->
            Result(FALSE, "Unexpected error", {"exception"}, 1)
      [] rev = "no_revisions" -> Result(FALSE, "No revisions found", diagnostics, 1)
      [] rev = "size_zero" ->
            Result(FALSE, "Page exists but has zero content",
                   diagnostics \cup {"raw_size"}, 1)
      [] rev = "redirect" ->
            Result(FALSE, "Page is a redirect",
                   diagnostics \cup {"raw_size", "is_redirect"}, 1)
      [] OTHER ->
            Result(FALSE, "Page has content but extract failed (likely special page type)",
                   diagnostics \cup {"raw_size"}, 1)

RECURSIVE diagnose_and_fetch(_, _)
diagnose_and_fetch(script, retry_count) ==
    LET response == ResponseAt(script, retry_count + 1)
        diagnostics == {"page_id", "lang", "page_title"}
    IN
    IF response.kind = "connection"
    THEN Result(FALSE, "Connection error", {"connection_error"}, 0)
    ELSE IF response.kind = "timeout"
    THEN Result(FALSE, "Request timeout after 30s", {"timeout"}, 0)
    ELSE IF response.status_code = 429
    THEN IF MayRetry(retry_count)
         THEN AfterSleep(RETRY_DELAYS[retry_count + 1],
                         diagnose_and_fetch(script, retry_count + 1))
         ELSE Result(FALSE, "Rate limited - max retries exceeded", {}, 0)
    ELSE IF response.status_code = 503
    THEN IF MayRetry(retry_count)
         THEN AfterSleep(RETRY_DELAYS[retry_count + 1],
                         diagnose_and_fetch(script, retry_count + 1))
         ELSE Result(FALSE, "Service unavailable - max retries exceeded", {}, 0)
    ELSE IF raise_for_status(response) \/ ~response.body.json
    THEN Result(FALSE, "Unexpected error", {"exception"}, 0)
    ELSE IF ~response.body.pages
    THEN Result(FALSE, "Empty API response", {"api_returned_no_pages"}, 0)
    ELSE IF response.body.missing
    THEN Result(FALSE, "Page does not exist (404)", diagnostics \cup {"missing"}, 0)
    ELSE IF response.body.invalid
    THEN Result(FALSE, "Invalid page title", diagnostics \cup {"invalid"}, 0)
    ELSE IF ~response.body.extract
    THEN IF response.body.disambiguation
         THEN Result(FALSE, "Disambiguation page (no article content)",
                     diagnostics \cup {"extract_length", "is_disambiguation"}, 0)
         ELSE raw_revision(script.rev, diagnostics \cup {"extract_length"})
    ELSE Result(TRUE, "content", diagnostics \cup {"extract_length"}, 0)

(***************************************************************************)
(* Text: a string is a sequence of one-character strings.                  *)
(***************************************************************************)
Digits == <<"0", "1", "2", "3", "4", "5", "6", "7", "8", "9">>

\* the character classes \d, [a-z] and [a-z\-]
DigitChars == {Digits[d] : d \in 1..10}

LowerChars ==
    {"a", "b", "c", "d", "e", "f", "g", "h", "i", "j", "k", "l", "m",
     "n", "o", "p", "q", "r", "s", "t", "u", "v", "w", "x", "y", "z"}

LowerOrHyphenChars == LowerChars \cup {"-"}

\* s[i..] starts with p
StartsWithAt(s, i, p) ==
    /\ i + Len(p) - 1 <= Len(s)
    /\ \A k \in 1..Len(p) : s[i + k - 1] = p[k]

\* the text of s from position i on
From(s, i) == SubSeq(s, i, Len(s))

\* the length of the longest run of characters of a class starting at s[i]
RECURSIVE RunLength(_, _, _)
RunLength(s, i, class) ==
    IF i <= Len(s) /\ s[i] \in class THEN 1 + RunLength(s, i + 1, class) ELSE 0

\* str(n) for n >= 0
RECURSIVE str(_)
str(n) == IF n < 10 THEN <<Digits[n + 1]>> ELSE str(n \div 10) \o <<Digits[(n % 10) + 1]>>

\* int(s) for a string of digits
RECURSIVE int(_)
int(s) ==
    IF s = <<>> THEN 0
    ELSE 10 * int(SubSeq(s, 1, Len(s) - 1))
         + (CHOOSE d \in 0..9 : Digits[d + 1] = s[Len(s)])

T_http == <<"h", "t", "t", "p">>
T_sep == <<":", "/", "/">>
T_wikipedia_org == <<".", "w", "i", "k", "i", "p", "e", "d", "i", "a", ".", "o", "r", "g">>
T_wiki == <<"/", "w", "i", "k", "i", "/">>
T_txt == <<".", "t", "x", "t">>
T_unknown == <<"u", "n", "k", "n", "o", "w", "n">>
\* the sentinel of find_wikipedia_url
URL_NOT_FOUND == <<"U", "R", "L", "_", "N", "O", "T", "_", "F", "O", "U", "N", "D">>

\* None, where the code has a string or None
None == <<>>

(***************************************************************************)
(* re.search(r'https?://(CLASS{lo,hi})\.wikipedia\.org', url): the match   *)
(* at position i, as the pair <<start, length>> of group 1, or <<0, 0>>.   *)
(* CLASS does not hold '.', so the group is the whole run before the dot.  *)
(***************************************************************************)
LangMatchAt(url, i, class, lo, hi) ==
    IF ~StartsWithAt(url, i, T_http) THEN <<0, 0>>
    ELSE LET j == IF StartsWithAt(url, i + 4, <<"s">>) THEN i + 5 ELSE i + 4 IN
         IF ~StartsWithAt(url, j, T_sep) THEN <<0, 0>>
         ELSE LET n == RunLength(url, j + 3, class) IN
              IF n >= lo /\ n <= hi /\ StartsWithAt(url, j + 3 + n, T_wikipedia_org)
              THEN <<j + 3, n>>
              ELSE <<0, 0>>

LangSearch(url, class, lo, hi) ==
    LET hits == {i \in 1..Len(url) : LangMatchAt(url, i, class, lo, hi)[1] # 0} IN
    IF hits = {} THEN T_unknown
    ELSE LET i == CHOOSE h \in hits : \A g \in hits : h <= g
             m == LangMatchAt(url, i, class, lo, hi)
         IN SubSeq(url, m[1], m[1] + m[2] - 1)

\* get_wiki_articles.py extract_language_code: [a-z]{2,3}
extract_language_code(url) == LangSearch(url, LowerChars, 2, 3)

\* retry_failed.py extract_language_code: [a-z\-]{2,7}
retry_extract_language_code(url) == LangSearch(url, LowerOrHyphenChars, 2, 7)

(***************************************************************************)
(* urllib.parse.unquote on the characters the model's URLs hold: "%20" is  *)
(* a space, "%28" and "%29" are parentheses; every other character stays.  *)
(***************************************************************************)
RECURSIVE unquote(_)
unquote(s) ==
    IF s = <<>> THEN <<>>
    ELSE IF StartsWithAt(s, 1, <<"%", "2", "0">>) THEN <<" ">> \o unquote(From(s, 4))
    ELSE IF StartsWithAt(s, 1, <<"%", "2", "8">>) THEN <<"(">> \o unquote(From(s, 4))
    ELSE IF StartsWithAt(s, 1, <<"%", "2", "9">>) THEN <<")">> \o unquote(From(s, 4))
    ELSE <<s[1]>> \o unquote(From(s, 2))

extract_page_title_Whole(url) == unquote(url)

\* re.search(r'/wiki/(.+)$', url), unquoted; None when there is no match
extract_page_title(url) ==
    LET hits == {i \in 1..Len(url) : StartsWithAt(url, i, T_wiki) /\ i + 6 <= Len(url)} IN
    IF hits = {} THEN None
    ELSE unquote(From(url, (CHOOSE h \in hits : \A g \in hits : h <= g) + 6))

(***************************************************************************)
(* Keys and filenames.                                                     *)
(***************************************************************************)
\* f"{book_id}|{url}"
Key(book_id, url) == book_id \o <<"|">> \o url

\* key.split('|', 1)
KeyBookId(key) == SubSeq(key, 1, (CHOOSE i \in 1..Len(key) :
                                    key[i] = "|" /\ \A j \in 1..(i - 1) : key[j] # "|") - 1)

KeyUrl(key) == From(key, (CHOOSE i \in 1..Len(key) :
                            key[i] = "|" /\ \A j \in 1..(i - 1) : key[j] # "|") + 1)

\* f"{book_id}_{lang}"
LangKey(book_id, lang) == book_id \o <<"_">> \o lang

Filename_AlwaysPlain(lang_key, counter) == lang_key \o T_txt

\* f"{book_id}_{lang}.txt" for the first file of a pair, f"{book_id}_{lang}_{n}.txt" after
Filename(lang_key, counter) ==
    IF counter = 1 THEN lang_key \o T_txt
    ELSE lang_key \o <<"_">> \o str(counter) \o T_txt

(***************************************************************************)
(* retry_failed.py: re.match(r'(\d+)_([a-z\-]+)(?:_(\d+))?\.txt', name)    *)
(* as [ok, lang_key, count]; count is int(counter) if counter else 1.      *)
(***************************************************************************)
NoMatch == [ok |-> FALSE, lang_key |-> <<>>, count |-> 0]

ScanMatch(filename) ==
    LET nb == RunLength(filename, 1, DigitChars) IN
    IF nb = 0 \/ ~StartsWithAt(filename, nb + 1, <<"_">>) THEN NoMatch
    ELSE LET nl == RunLength(filename, nb + 2, LowerOrHyphenChars)
             e == nb + 2 + nl
         IN
         IF nl = 0 THEN NoMatch
         ELSE LET nc == IF StartsWithAt(filename, e, <<"_">>)
                        THEN RunLength(filename, e + 1, DigitChars) ELSE 0
              IN
              IF nc > 0 /\ StartsWithAt(filename, e + 1 + nc, T_txt)
              THEN [ok |-> TRUE, lang_key |-> SubSeq(filename, 1, e - 1),
                    count |-> int(SubSeq(filename, e + 1, e + nc))]
              ELSE IF StartsWithAt(filename, e, T_txt)
              THEN [ok |-> TRUE, lang_key |-> SubSeq(filename, 1, e - 1), count |-> 1]
              ELSE NoMatch

(***************************************************************************)
(* A mapping (a Python dict, a JSON object) is the sequence of its entries *)
(* in insertion order; an entry of the checkpoint is                       *)
(* key -> {status, filename, timestamp}.                                   *)
(***************************************************************************)
EmptyMap == <<>>

Keys(m) == {m[i].key : i \in DOMAIN m}

Lookup(m, key) == m[CHOOSE i \in DOMAIN m : m[i].key = key]

Entry(key, status, filename, timestamp) ==
    [key |-> key, status |-> status, filename |-> filename, timestamp |-> timestamp]

\* progress[key] = {...}
Upsert(m, e) ==
    IF e.key \in Keys(m)
    THEN [i \in DOMAIN m |-> IF m[i].key = e.key THEN e ELSE m[i]]
    ELSE Append(m, e)

\* the subsequence of the entries that satisfy status = st, in order
RECURSIVE WithStatus(_, _)
WithStatus(m, st) ==
    IF m = <<>> THEN <<>>
    ELSE (IF Head(m).status = st THEN <<Head(m).key>> ELSE <<>>) \o WithStatus(Tail(m), st)

(***************************************************************************)
(* The input of the primary pipeline: the lines of all_book_wiki_links.txt *)
(* as process_line splits them, and the work items they give in order.     *)
(***************************************************************************)
T_https == T_http \o <<"s">> \o T_sep

URL_A == T_https \o <<"e", "n">> \o T_wikipedia_org \o T_wiki \o <<"A">>
URL_B == T_https \o <<"e", "n">> \o T_wikipedia_org \o T_wiki \o <<"B">>
\* a URL with nothing after /wiki/
URL_T == T_https \o <<"e", "n">> \o T_wikipedia_org \o T_wiki

INPUT_FILE ==
    << [book_id |-> <<"1", "0", "0">>, urls |-> <<URL_A, URL_B>>],
       [book_id |-> <<"2", "0", "0">>, urls |-> <<URL_T>>] >>

RECURSIVE LineItems(_, _)
LineItems(book_id, urls) ==
    IF urls = <<>> THEN <<>>
    ELSE <<[book_id |-> book_id, url |-> Head(urls)]>> \o LineItems(book_id, Tail(urls))

RECURSIVE WorkItems(_)
WorkItems(lines) ==
    IF lines = <<>> THEN <<>>
    ELSE LineItems(Head(lines).book_id, Head(lines).urls) \o WorkItems(Tail(lines))

Items == WorkItems(INPUT_FILE)

(***************************************************************************)
(* What the remote answers to the drivers: a page with content, or a       *)
(* missing page.  The drivers read only (success, result) of a fetch.      *)
(***************************************************************************)
PageBody(missing, extract) ==
    [json |-> TRUE, pages |-> TRUE, missing |-> missing, invalid |-> FALSE,
     extract |-> extract, disambiguation |-> FALSE]

DriverScripts ==
    {[throttles |-> <<>>, rev |-> "content",
      final |-> [kind |-> "http", status_code |-> 200, body |-> PageBody(FALSE, TRUE)]],
     [throttles |-> <<>>, rev |-> "content",
      final |-> [kind |-> "http", status_code |-> 200, body |-> PageBody(TRUE, FALSE)]]}

(***************************************************************************)
(* State.                                                                  *)
(***************************************************************************)
VARIABLES
    \* on disk
    progress_file,      \* progress.json: [state, data]
    articles_dir,       \* articles/: filename -> the key whose article it holds
    errors_log,         \* errors.log: the entries appended
    validation_progress_file,   \* validation_progress.json: [state, data]
    matches_file,       \* validated_matches.csv: [header, rows]
    mismatches_file,    \* validation_mismatches.csv: [header, rows]
    summary_file,       \* validation_summary.txt: the run that wrote it, 0 for none
    \* the running script (nothing of it survives the process)
    run,                \* "none", "primary", "retry" or "validate"
    progress,           \* fetch pipelines: the mapping in memory
    language_counters,  \* lang_key -> counter, a defaultdict(int)
    failed_entries,     \* retry pass: the keys to retry, in order
    progress_dict,      \* validation: the mapping in memory
    article_files,      \* validation: the sorted list of article files
    stats,              \* the counters of the run (stats; results in the retry pass)
    idx,                \* position in the work list
    pc,                 \* "idle", "loop" or "record"
    pending,            \* the outcome that is about to be recorded
    \* one call of a fetch adapter on its own, or the judge call of the item that
    \* the validation is about to record
    remote,             \* what the remote answers
    returned,           \* the variant called and what it returned
    \* bookkeeping of the model
    runs,               \* runs started so far; the timestamp of a run's entries
    prev,               \* how the previous run ended
    ops                 \* what the last step did

disk == <<progress_file, articles_dir, errors_log>>
proc == <<run, progress, language_counters, failed_entries, idx, pc, pending>>
validation_disk == <<validation_progress_file, matches_file, mismatches_file, summary_file>>
validation_proc == <<progress_dict, article_files, stats>>
adapter == <<remote, returned>>
elsewhere == <<adapter, validation_disk, progress_dict, article_files>>
vars == <<progress_file, articles_dir, errors_log, validation_progress_file, matches_file,
          mismatches_file, summary_file, run, progress, language_counters, failed_entries,
          progress_dict, article_files, stats, idx, pc, pending, remote, returned, runs,
          prev, ops>>

\* the number of runs (primary runs and retry passes) of a behaviour
MaxRuns == 3

NoPending == [key |-> None, status |-> "none", filename |-> None, sleep |-> FALSE]

\* a defaultdict(int) read
Counter(counters, lang_key) ==
    IF lang_key \in DOMAIN counters THEN counters[lang_key] ELSE 0

SetCounter(counters, lang_key, n) ==
    [k \in DOMAIN counters \cup {lang_key} |-> IF k = lang_key THEN n ELSE counters[k]]

NoCounters == [k \in {} |-> 0]

\* open(filepath, 'w'); f.write(content): the content of an article file is
\* the key it was fetched for
WriteFile(dir, filename, content) ==
    [f \in DOMAIN dir \cup {filename} |-> IF f = filename THEN content ELSE dir[f]]

\* get_wiki_articles.py main: the counters of stats that process_line counts up
PrimaryStats == [total_urls |-> 0, successful |-> 0, failed |-> 0, skipped |-> 0]

\* process_line, the skip branch, were total_urls left as it is
CountSkipped_Only(s) == [s EXCEPT !.skipped = @ + 1]

\* process_line, the skip branch: stats['skipped'] += 1; stats['total_urls'] += 1
CountSkipped(s) == [s EXCEPT !.skipped = @ + 1, !.total_urls = @ + 1]

\* retry_failed.py main: results = {'total': len(failed_entries), ...}
RetryResults(total) == [total |-> total, successful |-> 0, still_failed |-> 0]

\* validate_wiki_articles.py main: the statistics a run starts with
NoStats == [total_processed |-> 0, matches |-> 0, mismatches |-> 0, errors |-> 0]

Idle ==
    /\ run' = "none"
    /\ progress' = EmptyMap
    /\ language_counters' = NoCounters
    /\ failed_entries' = <<>>
    /\ idx' = 0
    /\ pc' = "idle"
    /\ pending' = NoPending
    /\ progress_dict' = EmptyMap
    /\ article_files' = <<>>
    /\ stats' = NoStats

\* no call of a fetch adapter on its own
NoScript == [throttles |-> <<>>, rev |-> "content",
             final |-> [kind |-> "timeout", status_code |-> 0, body |-> NoBody]]

NotCalled == [variant |-> "none", ret |-> Result(FALSE, "", {}, 0)]

NoLedger == [header |-> FALSE, rows |-> <<>>]

\* nothing has run yet: no checkpoint, no article, no log, no ledger
FreshDisk ==
    /\ progress_file = [state |-> "missing", data |-> EmptyMap]
    /\ articles_dir = [f \in {} |-> None]
    /\ errors_log = <<>>
    /\ validation_progress_file = [state |-> "missing", data |-> EmptyMap]
    /\ matches_file = NoLedger
    /\ mismatches_file = NoLedger
    /\ summary_file = 0

NoProcess ==
    /\ run = "none"
    /\ progress = EmptyMap
    /\ language_counters = NoCounters
    /\ failed_entries = <<>>
    /\ progress_dict = EmptyMap
    /\ article_files = <<>>
    /\ stats = NoStats
    /\ idx = 0
    /\ pc = "idle"
    /\ pending = NoPending
    /\ runs = 0
    /\ prev = "fresh"
    /\ ops = {}

Init ==
    /\ FreshDisk
    /\ NoProcess
    /\ remote = NoScript
    /\ returned = NotCalled

(***************************************************************************)
(* get_wiki_articles.py                                                    *)
(***************************************************************************)
load_progress_Forgotten(file) == EmptyMap

\* load_progress: a missing or unreadable file gives {}
load_progress(file) == IF file.state = "json" THEN file.data ELSE EmptyMap

\* main, up to the loop over the lines
StartPrimary ==
    /\ run = "none"
    /\ runs < MaxRuns
    /\ run' = "primary"
    /\ runs' = runs + 1
    /\ progress' = load_progress(progress_file)
    /\ language_counters' = NoCounters
    /\ failed_entries' = <<>>
    /\ idx' = 1
    /\ pc' = "loop"
    /\ pending' = NoPending
    /\ ops' = {"load"}
    /\ stats' = PrimaryStats
    /\ UNCHANGED elsewhere
    /\ UNCHANGED <<disk, prev>>

AlreadyProcessed_OnlyFailed(key, m) == key \in Keys(m) /\ Lookup(m, key).status = "failed"

AlreadyProcessed_OnlySuccess(key, m) == key \in Keys(m) /\ Lookup(m, key).status = "success"

\* `if key in progress`
AlreadyProcessed(key, m) == key \in Keys(m)

AtItem == run = "primary" /\ pc = "loop" /\ idx <= Len(Items)

ItemKey == Key(Items[idx].book_id, Items[idx].url)

\* log_error
LogEntry(book_id, url, error_message) ==
    [book_id |-> book_id, url |-> url, error |-> error_message]

\* process_line, one url: already in the checkpoint
PrimarySkip ==
    /\ AtItem
    /\ AlreadyProcessed(ItemKey, progress)
    /\ idx' = idx + 1
    /\ ops' = {"skip"}
    /\ stats' = CountSkipped(stats)
    /\ UNCHANGED elsewhere
    /\ UNCHANGED <<disk, run, progress, language_counters, failed_entries, pc, pending,
                   runs, prev>>

\* process_line, one url: no page title; up to log_error
PrimaryTitleFailure ==
    /\ AtItem
    /\ ~AlreadyProcessed(ItemKey, progress)
    /\ extract_page_title(Items[idx].url) = None
    /\ errors_log' = Append(errors_log, LogEntry(Items[idx].book_id, Items[idx].url,
                                                  "Could not extract page title"))
    /\ pending' = [key |-> ItemKey, status |-> "failed", filename |-> None, sleep |-> FALSE]
    /\ pc' = "record"
    /\ ops' = {"title", "log"}
    /\ stats' = [stats EXCEPT !.total_urls = @ + 1]
    /\ UNCHANGED elsewhere
    /\ UNCHANGED <<progress_file, articles_dir, run, progress, language_counters,
                   failed_entries, idx, runs, prev>>

\* process_line, one url: the filename is allocated, then the fetch fails; up to log_error
PrimaryFetchFailed ==
    /\ AtItem
    /\ ~AlreadyProcessed(ItemKey, progress)
    /\ extract_page_title(Items[idx].url) # None
    /\ \E script \in DriverScripts :
        LET lang_key == LangKey(Items[idx].book_id, extract_language_code(Items[idx].url))
            fetched == fetch_wikipedia_content(script, 0)
        IN
        /\ ~fetched.success
        /\ language_counters' =
              SetCounter(language_counters, lang_key, Counter(language_counters, lang_key) + 1)
        /\ errors_log' = Append(errors_log, LogEntry(Items[idx].book_id, Items[idx].url,
                                                      fetched.result))
    /\ pending' = [key |-> ItemKey, status |-> "failed", filename |-> None, sleep |-> TRUE]
    /\ pc' = "record"
    /\ ops' = {"title", "fetch", "log"}
    /\ stats' = [stats EXCEPT !.total_urls = @ + 1]
    /\ UNCHANGED elsewhere
    /\ UNCHANGED <<progress_file, articles_dir, run, progress, failed_entries, idx, runs, prev>>

\* process_line, one url: fetched and saved; up to save_article
PrimarySaved ==
    /\ AtItem
    /\ ~AlreadyProcessed(ItemKey, progress)
    /\ extract_page_title(Items[idx].url) # None
    /\ \E script \in DriverScripts :
        LET lang_key == LangKey(Items[idx].book_id, extract_language_code(Items[idx].url))
            counter == Counter(language_counters, lang_key) + 1
            filename == Filename(lang_key, counter)
        IN
        /\ fetch_wikipedia_content(script, 0).success
        /\ language_counters' = SetCounter(language_counters, lang_key, counter)
        /\ articles_dir' = WriteFile(articles_dir, filename, ItemKey)
        /\ pending' = [key |-> ItemKey, status |-> "success", filename |-> filename,
                       sleep |-> TRUE]
    /\ pc' = "record"
    /\ ops' = {"title", "fetch", "article_write"}
    /\ stats' = [stats EXCEPT !.total_urls = @ + 1]
    /\ UNCHANGED elsewhere
    /\ UNCHANGED <<progress_file, errors_log, run, progress, failed_entries, idx, runs, prev>>

\* process_line, one url: fetched, but save_article fails (open() raises: no file
\* is left behind); up to log_error
PrimarySaveFailed ==
    /\ AtItem
    /\ ~AlreadyProcessed(ItemKey, progress)
    /\ extract_page_title(Items[idx].url) # None
    /\ \E script \in DriverScripts :
        LET lang_key == LangKey(Items[idx].book_id, extract_language_code(Items[idx].url))
        IN
        /\ fetch_wikipedia_content(script, 0).success
        /\ language_counters' =
              SetCounter(language_counters, lang_key, Counter(language_counters, lang_key) + 1)
    /\ errors_log' = Append(errors_log, LogEntry(Items[idx].book_id, Items[idx].url,
                                                  "Failed to save file"))
    /\ pending' = [key |-> ItemKey, status |-> "failed", filename |-> None, sleep |-> TRUE]
    /\ pc' = "record"
    /\ ops' = {"title", "fetch", "log"}
    /\ stats' = [stats EXCEPT !.total_urls = @ + 1]
    /\ UNCHANGED elsewhere
    /\ UNCHANGED <<progress_file, articles_dir, run, progress, failed_entries, idx, runs, prev>>

save_progress_entry_AlwaysSuccess(m, key, status, filename, timestamp) ==
    Upsert(m, Entry(key, "success", filename, timestamp))

\* save_progress_entry: the entry is set and the whole mapping is written
save_progress_entry(m, key, status, filename, timestamp) ==
    Upsert(m, Entry(key, status, filename, timestamp))

\* process_line, one url: save_progress_entry, then the delay unless the item
\* left the loop body with `continue`
PrimaryRecord ==
    /\ run = "primary"
    /\ pc = "record"
    /\ progress' = save_progress_entry(progress, pending.key, pending.status,
                                       pending.filename, runs)
    /\ progress_file' = [state |-> "json", data |-> progress']
    /\ idx' = idx + 1
    /\ pc' = "loop"
    /\ pending' = NoPending
    /\ ops' = {"checkpoint_write"}
              \cup (IF pending.status = "failed" THEN {"error"} ELSE {})
              \cup (IF pending.sleep THEN {"sleep"} ELSE {})
    /\ stats' = IF pending.status = "success"
                THEN [stats EXCEPT !.successful = @ + 1]
                ELSE [stats EXCEPT !.failed = @ + 1]
    /\ UNCHANGED elsewhere
    /\ UNCHANGED <<articles_dir, errors_log, run, language_counters, failed_entries,
                   runs, prev>>

\* main, after the loop: generate_summary
FinishPrimary ==
    /\ run = "primary"
    /\ pc = "loop"
    /\ idx > Len(Items)
    /\ Idle
    /\ prev' = "primary_done"
    /\ ops' = {"summary"}
    /\ UNCHANGED <<adapter, validation_disk>>
    /\ UNCHANGED <<disk, runs>>

\* the process is terminated
Kill ==
    /\ run # "none"
    /\ Idle
    /\ prev' = CASE run = "primary" -> "primary_killed"
                 [] run = "retry" -> "retry_killed"
                 [] OTHER -> "validate_killed"
    /\ remote' = NoScript
    /\ returned' = NotCalled
    /\ ops' = {"killed"}
    /\ UNCHANGED <<disk, validation_disk, runs>>

(***************************************************************************)
(* retry_failed.py                                                         *)
(***************************************************************************)
\* main: the counters start at the highest n among the files of each pair
ScanCounters(dir) ==
    LET hits == {f \in DOMAIN dir : ScanMatch(f).ok}
        lang_keys == {ScanMatch(f).lang_key : f \in hits}
    IN [k \in lang_keys |->
          CHOOSE n \in {ScanMatch(f).count : f \in {g \in hits : ScanMatch(g).lang_key = k}} :
             \A f \in hits : ScanMatch(f).lang_key = k => ScanMatch(f).count <= n]

\* the entries to retry, were the success entries among them
FailedEntries_All(m) == WithStatus(m, "failed") \o WithStatus(m, "success")

\* [(key, value) for key, value in progress.items() if value.get('status') == 'failed']
FailedEntries(m) == WithStatus(m, "failed")

\* main, up to the loop over the failed entries (load_progress here raises on an
\* unreadable file: see RetryLoadRaises)
StartRetry ==
    /\ run = "none"
    /\ runs < MaxRuns
    /\ progress_file.state # "torn"
    /\ FailedEntries(progress_file.data) # <<>>
    /\ run' = "retry"
    /\ runs' = runs + 1
    /\ progress' = progress_file.data
    /\ failed_entries' = FailedEntries(progress_file.data)
    /\ language_counters' = ScanCounters(articles_dir)
    /\ idx' = 1
    /\ pc' = "loop"
    /\ pending' = NoPending
    /\ ops' = {"load"}
    /\ stats' = RetryResults(Len(FailedEntries(progress_file.data)))
    /\ UNCHANGED elsewhere
    /\ UNCHANGED <<disk, prev>>

\* main: "No failed entries to retry!"
RetryNothingToDo ==
    /\ run = "none"
    /\ runs < MaxRuns
    /\ progress_file.state # "torn"
    /\ FailedEntries(progress_file.data) = <<>>
    /\ runs' = runs + 1
    /\ prev' = "retry_none"
    /\ ops' = {"load"}
    /\ UNCHANGED stats
    /\ UNCHANGED elsewhere
    /\ UNCHANGED <<disk, proc>>

AtEntry == run = "retry" /\ pc = "loop" /\ idx <= Len(failed_entries)

EntryKey == failed_entries[idx]

\* one failed entry: no page title (`continue`: no delay)
RetryTitleFailure ==
    /\ AtEntry
    /\ extract_page_title(KeyUrl(EntryKey)) = None
    /\ idx' = idx + 1
    /\ ops' = {"title", "error"}
    /\ stats' = [stats EXCEPT !.still_failed = @ + 1]
    /\ UNCHANGED elsewhere
    /\ UNCHANGED <<disk, run, progress, language_counters, failed_entries, pc, pending,
                   runs, prev>>

\* one failed entry: the fetch fails again
RetryFetchFailed ==
    /\ AtEntry
    /\ extract_page_title(KeyUrl(EntryKey)) # None
    /\ \E script \in DriverScripts : ~diagnose_and_fetch(script, 0).success
    /\ idx' = idx + 1
    /\ ops' = {"title", "fetch", "error", "sleep"}
    /\ stats' = [stats EXCEPT !.still_failed = @ + 1]
    /\ UNCHANGED elsewhere
    /\ UNCHANGED <<disk, run, progress, language_counters, failed_entries, pc, pending,
                   runs, prev>>

\* one failed entry: fetched and saved; the entry becomes success in memory
RetrySaved ==
    /\ AtEntry
    /\ extract_page_title(KeyUrl(EntryKey)) # None
    /\ \E script \in DriverScripts :
        LET lang_key == LangKey(KeyBookId(EntryKey),
                                retry_extract_language_code(KeyUrl(EntryKey)))
            counter == Counter(language_counters, lang_key) + 1
            filename == Filename(lang_key, counter)
        IN
        /\ diagnose_and_fetch(script, 0).success
        /\ language_counters' = SetCounter(language_counters, lang_key, counter)
        /\ articles_dir' = WriteFile(articles_dir, filename, EntryKey)
        /\ progress' = Upsert(progress, Entry(EntryKey, "success", filename, runs))
    /\ idx' = idx + 1
    /\ ops' = {"title", "fetch", "article_write", "sleep"}
    /\ stats' = [stats EXCEPT !.successful = @ + 1]
    /\ UNCHANGED elsewhere
    /\ UNCHANGED <<progress_file, errors_log, run, failed_entries, pc, pending, runs, prev>>

\* one failed entry: fetched, but save_article fails (open() raises)
RetrySaveFailed ==
    /\ AtEntry
    /\ extract_page_title(KeyUrl(EntryKey)) # None
    /\ \E script \in DriverScripts :
        LET lang_key == LangKey(KeyBookId(EntryKey),
                                retry_extract_language_code(KeyUrl(EntryKey)))
        IN
        /\ diagnose_and_fetch(script, 0).success
        /\ language_counters' =
              SetCounter(language_counters, lang_key, Counter(language_counters, lang_key) + 1)
    /\ idx' = idx + 1
    /\ ops' = {"title", "fetch", "error", "sleep"}
    /\ stats' = [stats EXCEPT !.still_failed = @ + 1]
    /\ UNCHANGED elsewhere
    /\ UNCHANGED <<disk, run, progress, failed_entries, pc, pending, runs, prev>>

\* main, after the loop: save_progress(progress), then the results file
FinishRetry ==
    /\ run = "retry"
    /\ pc = "loop"
    /\ idx > Len(failed_entries)
    /\ progress_file' = [state |-> "json", data |-> progress]
    /\ Idle
    /\ prev' = "retry_done"
    /\ ops' = {"checkpoint_write"}
    /\ UNCHANGED <<adapter, validation_disk>>
    /\ UNCHANGED <<articles_dir, errors_log, runs>>

(***************************************************************************)
(* The fetch pipelines: any sequence of primary runs and retry passes,     *)
(* each run to its end or terminated between two of its steps.             *)
(***************************************************************************)
Next ==
    \/ StartPrimary
    \/ PrimarySkip
    \/ PrimaryTitleFailure
    \/ PrimaryFetchFailed
    \/ PrimarySaved
    \/ PrimarySaveFailed
    \/ PrimaryRecord
    \/ FinishPrimary
    \/ StartRetry
    \/ RetryNothingToDo
    \/ RetryTitleFailure
    \/ RetryFetchFailed
    \/ RetrySaved
    \/ RetrySaveFailed
    \/ FinishRetry
    \/ Kill

Spec == Init /\ [][Next]_vars

(***************************************************************************)
(* The fetch pipelines with terminations inside a checkpoint rewrite.      *)
(* save_progress_entry and save_progress open the file with 'w', which     *)
(* empties it, and json.dump fills it afterwards: a process terminated in  *)
(* between leaves a file that holds no JSON document.                      *)
(***************************************************************************)
TornFile == [state |-> "torn", data |-> EmptyMap]

\* the process is terminated inside save_progress_entry or save_progress
KillInRecord ==
    /\ \/ run = "primary" /\ pc = "record"
       \/ run = "retry" /\ pc = "loop" /\ idx > Len(failed_entries)
    /\ progress_file' = TornFile
    /\ Idle
    /\ prev' = IF run = "primary" THEN "primary_killed" ELSE "retry_killed"
    /\ ops' = {"killed", "checkpoint_torn"}
    /\ UNCHANGED <<articles_dir, errors_log, adapter, validation_disk, runs>>

\* retry_failed.py main: json.load raises on such a file, the pass ends at once
RetryLoadRaises ==
    /\ run = "none"
    /\ runs < MaxRuns
    /\ progress_file.state = "torn"
    /\ runs' = runs + 1
    /\ prev' = "retry_crashed"
    /\ ops' = {"load"}
    /\ UNCHANGED stats
    /\ UNCHANGED elsewhere
    /\ UNCHANGED <<disk, proc>>

NextTorn ==
    \/ Next
    \/ KillInRecord
    \/ RetryLoadRaises

SpecTorn == Init /\ [][NextTorn]_vars

(***************************************************************************)
(* The fetch adapter on its own: a remote is drawn, and either variant is  *)
(* called on it with retry_count 0, as the drivers call it.                *)
(***************************************************************************)
InitFetch ==
    /\ FreshDisk
    /\ NoProcess
    /\ remote \in Scripts
    /\ returned = NotCalled

\* get_wiki_articles.py: success, result = fetch_wikipedia_content(url)
CallFetch ==
    /\ returned' = [variant |-> "primary", ret |-> fetch_wikipedia_content(remote, 0)]
    /\ UNCHANGED <<disk, proc, validation_disk, validation_proc, remote, runs, prev, ops>>

\* retry_failed.py: success, result, diagnostics = diagnose_and_fetch(url)
CallDiagnose ==
    /\ returned' = [variant |-> "diagnostic", ret |-> diagnose_and_fetch(remote, 0)]
    /\ UNCHANGED <<disk, proc, validation_disk, validation_proc, remote, runs, prev, ops>>

NextFetch ==
    \/ CallFetch
    \/ CallDiagnose

SpecFetch == InitFetch /\ [][NextFetch]_vars

(***************************************************************************)
(* validate_wiki_articles.py: what the run reads.                          *)
(***************************************************************************)
B100 == <<"1", "0", "0">>
B300 == <<"3", "0", "0">>
B400 == <<"4", "0", "0">>
B500 == <<"5", "0", "0">>
T_en == <<"e", "n">>

\* pg_catalog.csv: the book ids that have a row
CATALOG == {B100, B300, B500}

\* all_book_wiki_links.txt when the validation runs: the line of book 500 has no URL
LINKS_FILE == INPUT_FILE \o << [book_id |-> B500, urls |-> <<>>] >>

\* articles/ as the fetch pipelines can have left it: the two articles of book 100,
\* an article whose language was not recognised, an article of a book that is not in
\* the catalog, and an article of the book whose line has no URL any more
ARTICLE_F1 == Filename(LangKey(B100, T_en), 1)
ARTICLE_F2 == Filename(LangKey(B100, T_en), 2)
ARTICLE_F3 == Filename(LangKey(B300, T_unknown), 1)
ARTICLE_F4 == Filename(LangKey(B400, T_en), 1)
ARTICLE_F5 == Filename(LangKey(B500, T_en), 1)

ArticleSets ==
    {{ARTICLE_F1, ARTICLE_F2}, {ARTICLE_F1, ARTICLE_F3}, {ARTICLE_F1, ARTICLE_F4},
     {ARTICLE_F1, ARTICLE_F5}, {ARTICLE_F1, ARTICLE_F2, ARTICLE_F3}}

\* the characters of the model's filenames in code point order
CodePoints ==
    <<"-", ".", "0", "1", "2", "3", "4", "5", "6", "7", "8", "9", "_",
      "a", "b", "c", "d", "e", "f", "g", "h", "i", "j", "k", "l", "m",
      "n", "o", "p", "q", "r", "s", "t", "u", "v", "w", "x", "y", "z">>

ord(c) == CHOOSE i \in DOMAIN CodePoints : CodePoints[i] = c

\* a < b for Python strings
RECURSIVE StrLess(_, _)
StrLess(a, b) ==
    IF b = <<>> THEN FALSE
    ELSE IF a = <<>> THEN TRUE
    ELSE IF a[1] # b[1] THEN ord(a[1]) < ord(b[1])
    ELSE StrLess(Tail(a), Tail(b))

\* sorted(names)
RECURSIVE sorted(_)
sorted(names) ==
    IF names = {} THEN <<>>
    ELSE LET least == CHOOSE a \in names : \A b \in names \ {a} : StrLess(a, b)
         IN <<least>> \o sorted(names \ {least})

\* f.endswith('.txt')
EndsWithTxt(f) == Len(f) >= 4 /\ SubSeq(f, Len(f) - 3, Len(f)) = T_txt

(***************************************************************************)
(* re.match(r'^(\d+)_([a-z]{2,3})(?:_\d+)?\.txt$', filename) as            *)
(* [ok, book_id, language]: the language is the whole run of letters, two  *)
(* or three of them.                                                       *)
(***************************************************************************)
Unparsed == [ok |-> FALSE, book_id |-> None, language |-> None]

parse_article_filename(filename) ==
    LET nb == RunLength(filename, 1, DigitChars) IN
    IF nb = 0 \/ ~StartsWithAt(filename, nb + 1, <<"_">>) THEN Unparsed
    ELSE LET nl == RunLength(filename, nb + 2, LowerChars)
             e == nb + 2 + nl
             nc == IF StartsWithAt(filename, e, <<"_">>)
                   THEN RunLength(filename, e + 1, DigitChars) ELSE 0
             parsed == [ok |-> TRUE, book_id |-> SubSeq(filename, 1, nb),
                        language |-> SubSeq(filename, nb + 2, e - 1)]
         IN
         IF nl < 2 \/ nl > 3 THEN Unparsed
         ELSE IF nc > 0 /\ From(filename, e + 1 + nc) = T_txt THEN parsed
         ELSE IF From(filename, e) = T_txt THEN parsed
         ELSE Unparsed

\* load_wikipedia_url_mapping: book_id -> [(url, lang)]; a later line of the same
\* book replaces an earlier one
RECURSIVE UrlList(_)
UrlList(urls) ==
    IF urls = <<>> THEN <<>>
    ELSE <<[url |-> Head(urls), lang |-> LangSearch(Head(urls), LowerChars, 2, 3)]>>
         \o UrlList(Tail(urls))

RECURSIVE load_wikipedia_url_mapping(_)
load_wikipedia_url_mapping(lines) ==
    IF lines = <<>> THEN EmptyMap
    ELSE LET line == lines[Len(lines)]
             before == load_wikipedia_url_mapping(SubSeq(lines, 1, Len(lines) - 1))
         IN Upsert(before, [key |-> line.book_id, urls |-> UrlList(line.urls)])

\* find_wikipedia_url, were a single candidate returned only for its own language
find_wikipedia_url_SingleByLanguage(url_mapping, book_id, language) ==
    IF book_id \notin Keys(url_mapping)
    THEN [raised |-> FALSE, url |-> URL_NOT_FOUND]
    ELSE LET urls == Lookup(url_mapping, book_id).urls
             same == {i \in DOMAIN urls : urls[i].lang = language}
         IN
         IF same # {}
         THEN [raised |-> FALSE, url |-> urls[CHOOSE i \in same : \A j \in same : i <= j].url]
         ELSE IF Len(urls) = 1 THEN [raised |-> FALSE, url |-> URL_NOT_FOUND]
         ELSE IF urls = <<>> THEN [raised |-> TRUE, url |-> None]
         ELSE [raised |-> FALSE, url |-> urls[1].url]

\* find_wikipedia_url, were the last candidate of the language returned
find_wikipedia_url_LastMatch(url_mapping, book_id, language) ==
    IF book_id \notin Keys(url_mapping)
    THEN [raised |-> FALSE, url |-> URL_NOT_FOUND]
    ELSE LET urls == Lookup(url_mapping, book_id).urls
             same == {i \in DOMAIN urls : urls[i].lang = language}
         IN
         IF Len(urls) = 1 THEN [raised |-> FALSE, url |-> urls[1].url]
         ELSE IF same # {}
         THEN [raised |-> FALSE, url |-> urls[CHOOSE i \in same : \A j \in same : i >= j].url]
         ELSE IF urls = <<>> THEN [raised |-> TRUE, url |-> None]
         ELSE [raised |-> FALSE, url |-> urls[1].url]

\* find_wikipedia_url as [raised, url]: urls[0][0] raises IndexError on an empty list
find_wikipedia_url(url_mapping, book_id, language) ==
    IF book_id \notin Keys(url_mapping)
    THEN [raised |-> FALSE, url |-> URL_NOT_FOUND]
    ELSE LET urls == Lookup(url_mapping, book_id).urls
             same == {i \in DOMAIN urls : urls[i].lang = language}
         IN
         IF Len(urls) = 1 THEN [raised |-> FALSE, url |-> urls[1].url]
         ELSE IF same # {}
         THEN [raised |-> FALSE, url |-> urls[CHOOSE i \in same : \A j \in same : i <= j].url]
         ELSE IF urls = <<>> THEN [raised |-> TRUE, url |-> None]
         ELSE [raised |-> FALSE, url |-> urls[1].url]

(***************************************************************************)
(* validate_wiki_articles.py: the judge.  A judge script is the number of  *)
(* attempts that raise before one returns, and the text then returned, as  *)
(* the words after "VERDICT:" and "CONFIDENCE:" ("" where the text has no  *)
(* such line).                                                             *)
(***************************************************************************)
JUDGE_MAX_RETRIES == 3
JUDGE_DELAYS == <<5, 15, 45>>

JudgeResponses ==
    {[verdict |-> "YES", confidence |-> "HIGH"],
     [verdict |-> "yes", confidence |-> "medium"],
     [verdict |-> "NO", confidence |-> "LOW"],
     [verdict |-> "no", confidence |-> ""],
     [verdict |-> "", confidence |-> "low"]}

JudgeScripts == [failures : 0..JUDGE_MAX_RETRIES, response : JudgeResponses]

\* str.upper() on the words of the model
upper(w) ==
    CASE w = "yes" -> "YES"
      [] w = "no" -> "NO"
      [] w = "high" -> "HIGH"
      [] w = "medium" -> "MEDIUM"
      [] w = "low" -> "LOW"
      [] OTHER -> w

\* parse_claude_response: no verdict line is a mismatch, no confidence line is MEDIUM
parse_claude_response_CaseSensitive(response_text) ==
    [is_match |-> response_text.verdict = "YES",
     confidence |-> IF response_text.confidence # ""
                    THEN response_text.confidence ELSE "MEDIUM"]

parse_claude_response(response_text) ==
    [is_match |-> IF response_text.verdict # ""
                  THEN upper(response_text.verdict) = "YES" ELSE FALSE,
     confidence |-> IF response_text.confidence # ""
                    THEN upper(response_text.confidence) ELSE "MEDIUM"]

NoVerdict == [is_match |-> FALSE, confidence |-> ""]

\* validate_article_with_claude, were the first exception raised on
validate_article_with_claude_NoRetry(judge, attempt) ==
    IF judge.failures = 0
    THEN [raised |-> FALSE, result |-> parse_claude_response(judge.response),
          sleeps |-> <<>>]
    ELSE [raised |-> TRUE, result |-> NoVerdict, sleeps |-> <<>>]

\* validate_article_with_claude from attempt on, as [raised, result, sleeps]
RECURSIVE validate_article_with_claude(_, _)
validate_article_with_claude(judge, attempt) ==
    IF attempt >= judge.failures
    THEN [raised |-> FALSE, result |-> parse_claude_response(judge.response),
          sleeps |-> <<>>]
    ELSE IF attempt < JUDGE_MAX_RETRIES - 1
    THEN LET later == validate_article_with_claude(judge, attempt + 1) IN
         [later EXCEPT !.sleeps = <<JUDGE_DELAYS[attempt + 1]>> \o @]
    ELSE [raised |-> TRUE, result |-> NoVerdict, sleeps |-> <<>>]

(***************************************************************************)
(* validate_wiki_articles.py main.                                         *)
(***************************************************************************)
\* load_validation_progress: fail-open
load_validation_progress(file) == IF file.state = "json" THEN file.data ELSE EmptyMap

InitValidate ==
    /\ progress_file = [state |-> "missing", data |-> EmptyMap]
    /\ articles_dir \in {[f \in files |-> None] : files \in ArticleSets}
    /\ errors_log = <<>>
    /\ validation_progress_file = [state |-> "missing", data |-> EmptyMap]
    /\ matches_file = NoLedger
    /\ mismatches_file = NoLedger
    /\ summary_file = 0
    /\ NoProcess
    /\ remote = NoScript
    /\ returned = NotCalled

\* main up to the loop: the checkpoint is loaded, both ledgers are opened with 'w'
\* (the header stays in the buffer), the articles are listed
StartValidate ==
    /\ run = "none"
    /\ runs < MaxRuns
    /\ run' = "validate"
    /\ runs' = runs + 1
    /\ progress_dict' = load_validation_progress(validation_progress_file)
    /\ matches_file' = NoLedger
    /\ mismatches_file' = NoLedger
    /\ article_files' = sorted({f \in DOMAIN articles_dir : EndsWithTxt(f)})
    /\ stats' = NoStats
    /\ idx' = 1
    /\ pc' = "loop"
    /\ ops' = {"load"}
    /\ UNCHANGED <<disk, validation_progress_file, summary_file, adapter, progress,
                   language_counters, failed_entries, pending, prev>>

AtFile == run = "validate" /\ pc = "loop" /\ idx <= Len(article_files)

CurrentFile == article_files[idx]

\* a step of the loop that touches neither disk nor checkpoint
NextFile ==
    /\ idx' = idx + 1
    /\ remote' = NoScript
    /\ returned' = NotCalled
    /\ UNCHANGED <<disk, validation_disk, run, progress, language_counters,
                   failed_entries, progress_dict, article_files, pc, pending, runs, prev>>

\* `if filename in progress_dict: continue`
ValidateSkip ==
    /\ AtFile
    /\ CurrentFile \in Keys(progress_dict)
    /\ NextFile
    /\ ops' = {"skip"}
    /\ UNCHANGED stats

ItemError == stats' = [stats EXCEPT !.errors = @ + 1]

\* the filename does not parse: logged, counted, `continue`
ValidateUnparsable ==
    /\ AtFile
    /\ CurrentFile \notin Keys(progress_dict)
    /\ ~parse_article_filename(CurrentFile).ok
    /\ NextFile
    /\ ItemError
    /\ ops' = {"error"}

Readable ==
    /\ AtFile
    /\ CurrentFile \notin Keys(progress_dict)
    /\ parse_article_filename(CurrentFile).ok
    /\ parse_article_filename(CurrentFile).book_id \in CATALOG

\* the book is not in the catalog: logged, counted, `continue`
ValidateNoMetadata ==
    /\ AtFile
    /\ CurrentFile \notin Keys(progress_dict)
    /\ parse_article_filename(CurrentFile).ok
    /\ parse_article_filename(CurrentFile).book_id \notin CATALOG
    /\ NextFile
    /\ ItemError
    /\ ops' = {"error"}

\* the article cannot be read: logged, counted, `continue`
ValidateReadFailed ==
    /\ Readable
    /\ NextFile
    /\ ItemError
    /\ ops' = {"read", "error"}

WikipediaUrl ==
    LET parsed == parse_article_filename(CurrentFile) IN
    find_wikipedia_url(load_wikipedia_url_mapping(LINKS_FILE), parsed.book_id,
                       parsed.language)

\* find_wikipedia_url raises outside every try: the run ends with a traceback, the
\* interpreter closes the ledgers on its way out
ValidateLookupRaises ==
    /\ Readable
    /\ WikipediaUrl.raised
    /\ Idle
    /\ matches_file' = [matches_file EXCEPT !.header = TRUE]
    /\ mismatches_file' = [mismatches_file EXCEPT !.header = TRUE]
    /\ prev' = "validate_aborted"
    /\ remote' = NoScript
    /\ returned' = NotCalled
    /\ ops' = {"read", "error"}
    /\ UNCHANGED <<disk, validation_progress_file, summary_file, runs>>

Row(filename, confidence, wikipedia_url) ==
    [filename |-> filename, book_id |-> parse_article_filename(filename).book_id,
     confidence |-> confidence, wikipedia_url |-> wikipedia_url]

\* write_validation_result: the row is written and flushed, the header before it
write_validation_result(file_handle, row) ==
    [header |-> TRUE, rows |-> Append(file_handle.rows, row)]

\* the judge gives a verdict: the row goes to its ledger and is counted
ValidateJudged ==
    /\ Readable
    /\ ~WikipediaUrl.raised
    /\ \E judge \in JudgeScripts :
          LET judged == validate_article_with_claude(judge, 0)
              row == Row(CurrentFile, judged.result.confidence, WikipediaUrl.url)
          IN
          /\ ~judged.raised
          /\ IF judged.result.is_match
             THEN /\ matches_file' = write_validation_result(matches_file, row)
                  /\ stats' = [stats EXCEPT !.matches = @ + 1]
                  /\ UNCHANGED mismatches_file
             ELSE /\ mismatches_file' = write_validation_result(mismatches_file, row)
                  /\ stats' = [stats EXCEPT !.mismatches = @ + 1]
                  /\ UNCHANGED matches_file
          /\ pending' = [key |-> CurrentFile, filename |-> CurrentFile,
                         status |-> IF judged.result.is_match THEN "match" ELSE "mismatch",
                         sleep |-> TRUE]
          /\ remote' = judge
          /\ returned' = [variant |-> "judge", ret |-> judged]
    /\ pc' = "record"
    /\ ops' = {"read", "judge", "ledger_write"}
    /\ UNCHANGED <<disk, validation_progress_file, summary_file, run, progress,
                   language_counters, failed_entries, progress_dict, article_files, idx,
                   runs, prev>>

\* progress[filename] = {'status': 'completed', ...}
validation_save_progress_entry(m, filename, verdict, timestamp) ==
    Upsert(m, [key |-> filename, status |-> "completed", verdict |-> verdict,
               timestamp |-> timestamp])

\* save_progress_entry, the count, the sleep
ValidateRecord ==
    /\ run = "validate"
    /\ pc = "record"
    /\ progress_dict' = validation_save_progress_entry(progress_dict, pending.key,
                                                       pending.status, runs)
    /\ validation_progress_file' = [state |-> "json", data |-> progress_dict']
    /\ stats' = [stats EXCEPT !.total_processed = @ + 1]
    /\ idx' = idx + 1
    /\ pc' = "loop"
    /\ pending' = NoPending
    /\ remote' = NoScript
    /\ returned' = NotCalled
    /\ ops' = {"checkpoint_write", "sleep"}
    /\ UNCHANGED <<disk, matches_file, mismatches_file, summary_file, run,
                   progress, language_counters, failed_entries, article_files, runs, prev>>

\* the judge raises on its third attempt: logged, counted, the sleep
ValidateJudgeFailed ==
    /\ Readable
    /\ ~WikipediaUrl.raised
    /\ \E judge \in JudgeScripts :
          LET judged == validate_article_with_claude(judge, 0) IN
          /\ judged.raised
          /\ remote' = judge
          /\ returned' = [variant |-> "judge", ret |-> judged]
    /\ idx' = idx + 1
    /\ ItemError
    /\ ops' = {"read", "judge", "error", "sleep"}
    /\ UNCHANGED <<disk, validation_disk, run, progress, language_counters,
                   failed_entries, progress_dict, article_files, pc, pending, runs, prev>>

\* generate_summary divides by the total, by the matches and by the mismatches
SummaryRaises == stats.total_processed = 0 \/ stats.matches = 0 \/ stats.mismatches = 0

\* main, after the loop: the ledgers are closed, the summary is written
FinishValidate ==
    /\ run = "validate"
    /\ pc = "loop"
    /\ idx > Len(article_files)
    /\ Idle
    /\ matches_file' = [matches_file EXCEPT !.header = TRUE]
    /\ mismatches_file' = [mismatches_file EXCEPT !.header = TRUE]
    /\ summary_file' = IF SummaryRaises THEN summary_file ELSE runs
    /\ prev' = IF SummaryRaises THEN "validate_crashed" ELSE "validate_done"
    /\ remote' = NoScript
    /\ returned' = NotCalled
    /\ ops' = {"summary"}
    /\ UNCHANGED <<disk, validation_progress_file, runs>>

\* the process is terminated inside save_progress_entry: open(PROGRESS_FILE, 'w')
\* has emptied the file, json.dump has not filled it; the row is in its ledger
KillInValidateRecord ==
    /\ run = "validate"
    /\ pc = "record"
    /\ validation_progress_file' = TornFile
    /\ Idle
    /\ prev' = "validate_killed"
    /\ remote' = NoScript
    /\ returned' = NotCalled
    /\ ops' = {"killed", "checkpoint_torn"}
    /\ UNCHANGED <<disk, matches_file, mismatches_file, summary_file, runs>>

NextValidate ==
    \/ StartValidate
    \/ ValidateSkip
    \/ ValidateUnparsable
    \/ ValidateNoMetadata
    \/ ValidateReadFailed
    \/ ValidateLookupRaises
    \/ ValidateJudged
    \/ ValidateRecord
    \/ ValidateJudgeFailed
    \/ FinishValidate
    \/ Kill
    \/ KillInValidateRecord

SpecValidate == InitValidate /\ [][NextValidate]_vars

(***************************************************************************)
(* add_urls_to_results.py: its own copies of the loader and of the URL     *)
(* resolution.                                                             *)
(***************************************************************************)
RECURSIVE add_urls_load_wikipedia_url_mapping(_)
add_urls_load_wikipedia_url_mapping(lines) ==
    IF lines = <<>> THEN EmptyMap
    ELSE LET line == lines[Len(lines)]
             before == add_urls_load_wikipedia_url_mapping(SubSeq(lines, 1, Len(lines) - 1))
         IN Upsert(before, [key |-> line.book_id, urls |-> UrlList(line.urls)])

add_urls_find_wikipedia_url(url_mapping, book_id, language) ==
    IF book_id \notin Keys(url_mapping)
    THEN [raised |-> FALSE, url |-> URL_NOT_FOUND]
    ELSE LET urls == Lookup(url_mapping, book_id).urls
             \* the positions at which `for url, lang in urls` would return
             same == {i \in DOMAIN urls : urls[i].lang = language}
         IN
         IF Len(urls) = 1 THEN [raised |-> FALSE, url |-> urls[1].url]
         ELSE IF same # {}
         THEN [raised |-> FALSE, url |-> urls[CHOOSE i \in same : \A k \in same : i <= k].url]
         ELSE IF urls = <<>> THEN [raised |-> TRUE, url |-> None]
         ELSE [raised |-> FALSE, url |-> urls[1].url]

(***************************************************************************)
(* The URL resolution on its own: a links file, a book id and a language   *)
(* are drawn; the file is loaded and the URL is looked up, as main of      *)
(* validate_wiki_articles.py and update_results_file of                    *)
(* add_urls_to_results.py do.                                              *)
(***************************************************************************)
\* the most URLs on a line of the links file
MaxCandidates == 3

T_de == <<"d", "e">>
URL_D == T_https \o T_de \o T_wikipedia_org \o T_wiki \o <<"A">>

\* the links file: a line of book 100 with up to MaxCandidates URLs, and possibly a
\* later line, of the same book or of book 300, with no URL or with one
LinksFiles ==
    LET UrlLists == UNION {[1..n -> {URL_A, URL_B, URL_D}] : n \in 0..MaxCandidates}
        LaterLines == {[book_id |-> b, urls |-> u] :
                          b \in {B100, B300}, u \in {<<>>, <<URL_D>>}}
    IN
    {<< [book_id |-> B100, urls |-> u] >> : u \in UrlLists}
    \cup {<< [book_id |-> B100, urls |-> u], later >> : u \in UrlLists, later \in LaterLines}

\* the file, the book id and the language of one resolution; no URL is French
ResolveInputs ==
    [lines : LinksFiles, book_id : {B100, B300, B500}, language : {T_en, T_de, <<"f", "r">>}]

InitResolve ==
    /\ FreshDisk
    /\ NoProcess
    /\ remote \in ResolveInputs
    /\ returned = NotCalled

\* validate_wiki_articles.py main: wikipedia_url = find_wikipedia_url(url_mapping, ...)
CallResolve ==
    /\ remote \in ResolveInputs
    /\ returned' = [variant |-> "validate",
                    ret |-> find_wikipedia_url(load_wikipedia_url_mapping(remote.lines),
                                               remote.book_id, remote.language)]
    /\ UNCHANGED <<disk, proc, validation_disk, validation_proc, remote, runs, prev, ops>>

\* add_urls_to_results.py update_results_file: the same call on its own copies
CallAddUrls ==
    /\ remote \in ResolveInputs
    /\ returned' = [variant |-> "add_urls",
                    ret |-> add_urls_find_wikipedia_url(
                                add_urls_load_wikipedia_url_mapping(remote.lines),
                                remote.book_id, remote.language)]
    /\ UNCHANGED <<disk, proc, validation_disk, validation_proc, remote, runs, prev, ops>>

NextResolve ==
    \/ CallResolve
    \/ CallAddUrls

SpecResolve == InitResolve /\ [][NextResolve]_vars

(***************************************************************************)
(* The language tag and the filename on their own: a URL is drawn; either  *)
(* pipeline extracts the tag, allocates the first or the second filename   *)
(* of book 100 for it, and the validation parses that filename.            *)
(***************************************************************************)
\* the longest host subdomain that is enumerated
MaxSubdomain == 4

\* host subdomains: every string of up to MaxSubdomain characters over a lowercase
\* letter, a hyphen, an uppercase letter and a dot, and some subdomains of Wikipedia
Subdomains ==
    UNION {[1..n -> {"z", "-", "Z", "."}] : n \in 0..MaxSubdomain}
    \cup {T_en, T_de,
          <<"s", "i", "m", "p", "l", "e">>,
          <<"z", "h", "-", "y", "u", "e">>,
          <<"b", "a", "t", "-", "s", "m", "g">>,
          <<"r", "o", "a", "-", "t", "a", "r", "a">>,
          <<"z", "h", "-", "c", "l", "a", "s", "s", "i", "c", "a", "l">>}

InitText ==
    /\ FreshDisk
    /\ NoProcess
    /\ remote \in {[subdomain |-> sub,
                    url |-> scheme \o T_sep \o sub \o T_wikipedia_org \o T_wiki \o <<"A">>] :
                       sub \in Subdomains, scheme \in {T_http, T_http \o <<"s">>}}
    /\ returned = NotCalled

\* get_wiki_articles.py process_line: lang = extract_language_code(url)
CallExtractLanguage ==
    /\ returned = NotCalled
    /\ returned' = [variant |-> "language", ret |-> extract_language_code(remote.url)]
    /\ UNCHANGED <<disk, proc, validation_disk, validation_proc, remote, runs, prev, ops>>

\* retry_failed.py main: lang = extract_language_code(url)
CallRetryExtractLanguage ==
    /\ returned = NotCalled
    /\ returned' = [variant |-> "retry_language",
                    ret |-> retry_extract_language_code(remote.url)]
    /\ UNCHANGED <<disk, proc, validation_disk, validation_proc, remote, runs, prev, ops>>

\* the pipeline allocates the filename for counter 1 or 2, and validate_wiki_articles.py
\* main calls parse_article_filename on it
CallParse ==
    /\ returned.variant \in {"language", "retry_language"}
    /\ \E counter \in {1, 2} :
        LET filename == Filename(LangKey(B100, returned.ret), counter) IN
        returned' = [variant |-> "parse",
                     ret |-> [language |-> returned.ret, counter |-> counter,
                              filename |-> filename,
                              parsed |-> parse_article_filename(filename)]]
    /\ UNCHANGED <<disk, proc, validation_disk, validation_proc, remote, runs, prev, ops>>

NextText ==
    \/ CallExtractLanguage
    \/ CallRetryExtractLanguage
    \/ CallParse

SpecText == InitText /\ [][NextText]_vars

(***************************************************************************)
(* Properties of the fetch pipelines.                                      *)
(***************************************************************************)
HasStatus(m, key, st) == key \in Keys(m) /\ Lookup(m, key).status = st

SuccessEntries(m) == {i \in DOMAIN m : m[i].status = "success"}

\* the step is a skip: nothing on disk changes, no title is extracted, no request
\* is made, and the driver is at the next item
IsSkip ==
    /\ ops' = {"skip"}
    /\ disk' = disk
    /\ idx' = idx + 1
    /\ pc' = "loop"

\* C1: a key that is in the checkpoint with status success when the driver reaches
\* it is skipped before any network work: the primary pipeline's step for it
\* extracts no title, makes no request and writes neither an article nor the
\* checkpoint, and the retry pass never reaches such a key.
C1_SuccessIsSkipped ==
    /\ [][(AtItem /\ HasStatus(progress, ItemKey, "success") /\ run' = run) => IsSkip]_vars
    /\ [](AtEntry => ~HasStatus(progress, EntryKey, "success"))

\* C1 witness: the primary pipeline has just skipped a key whose status is success
C1_Witness ==
    /\ run = "primary"
    /\ ops = {"skip"}
    /\ idx > 1
    /\ HasStatus(progress, Key(Items[idx - 1].book_id, Items[idx - 1].url), "success")

\* C2 (as claimed): in every pipeline the checkpoint file holds the outcome of every
\* item completed so far whenever the driver is between two items, so that a
\* termination loses at most the item in flight.
C2_PersistedAfterEachItem ==
    (run # "none" /\ pc = "loop") => progress_file.data = progress

\* C3: a primary run that starts from the checkpoint file left by a completed
\* primary run on the same input writes no article and leaves the checkpoint file
\* (and the error log) as it found them.
C3_SecondRunIdempotent ==
    [][(run = "primary" /\ prev = "primary_done")
         => (disk' = disk /\ "article_write" \notin ops' /\ "fetch" \notin ops')]_vars

\* C3 witness: a second primary run is through its pass over a checkpoint that holds
\* a success and a failed entry
C3_Witness ==
    /\ run = "primary"
    /\ prev = "primary_done"
    /\ idx > Len(Items)
    /\ \E i, j \in DOMAIN progress_file.data :
          progress_file.data[i].status = "success" /\ progress_file.data[j].status = "failed"

\* C4 (as claimed): allocation is collision-free across runs: the success entries of
\* distinct keys name distinct files, and the file a success entry names holds that
\* key's article (no later save has overwritten it).
C4_CollisionFree ==
    LET m == progress_file.data IN
    /\ \A i, j \in SuccessEntries(m) : i # j => m[i].filename # m[j].filename
    /\ \A i \in SuccessEntries(m) :
          /\ m[i].filename \in DOMAIN articles_dir
          /\ articles_dir[m[i].filename] = m[i].key

\* C5 (as claimed): across any sequence of primary runs and retry passes the
\* persisted checkpoint is only upserted: no step removes a key from it, and no step
\* changes the status or the filename of a success entry.
C5_UpsertOnly ==
    [][\A i \in DOMAIN progress_file.data :
          LET e == progress_file.data[i] IN
          /\ e.key \in Keys(progress_file'.data)
          /\ e.status = "success" =>
                /\ Lookup(progress_file'.data, e.key).status = "success"
                /\ Lookup(progress_file'.data, e.key).filename = e.filename]_vars

\* C6: the primary pipeline skips a key whose status is failed exactly as it skips a
\* success key, and the work list of a retry pass is exactly the entries whose
\* status is failed in the checkpoint at the start of the pass (a pass with no such
\* entry ends at once), unchanged for the whole pass.
C6_FailedOnlyRetried ==
    [][/\ (AtItem /\ HasStatus(progress, ItemKey, "failed") /\ run' = run) => IsSkip
       /\ (run = "none" /\ run' = "retry") =>
             /\ {failed_entries'[i] : i \in DOMAIN failed_entries'}
                   = {k \in Keys(progress_file.data) : HasStatus(progress_file.data, k, "failed")}
             /\ \A i, j \in DOMAIN failed_entries' :
                   i # j => failed_entries'[i] # failed_entries'[j]
       /\ (run = "none" /\ run' = "none" /\ runs' # runs) =>
             \A k \in Keys(progress_file.data) : ~HasStatus(progress_file.data, k, "failed")
       /\ (run = "retry" /\ run' = "retry") => failed_entries' = failed_entries]_vars

\* C6 witness: after a retry pass that left a key failed, the primary pipeline has
\* just skipped that key
C6_Witness ==
    /\ run = "primary"
    /\ prev = "retry_done"
    /\ ops = {"skip"}
    /\ idx > 1
    /\ HasStatus(progress, Key(Items[idx - 1].book_id, Items[idx - 1].url), "failed")

(***************************************************************************)
(* Properties of the fetch adapter (SpecFetch).                            *)
(***************************************************************************)
Called == returned.variant # "none"

\* the number of consecutive 429/503 answers the remote gives first
Throttles == Len(remote.throttles)

Min(a, b) == IF a <= b THEN a ELSE b

\* the remote's first answer that is not 429/503 was received by the call
FinalReceived == Called /\ Throttles <= MAX_RETRIES

\* the call made no retry on account of the remote's final answer
NoRetryOfFinal ==
    /\ returned.ret.requests = Throttles + 1
    /\ Len(returned.ret.sleeps) = Throttles

\* C7: in both variants a call that is answered 429/503 k times in a row retries
\* exactly min(k, 3) times, sleeping 5, 15 and 45 seconds before the first, second and
\* third retry; when the answer after the third retry is again 429/503 the call fails
\* with the reason that names that answer's code (rate limited for 429, service
\* unavailable for 503)
C7_BackoffSchedule ==
    Called =>
        LET n == Min(Throttles, 3) IN
        /\ returned.ret.requests = n + 1
        /\ returned.ret.sleeps = SubSeq(<<5, 15, 45>>, 1, n)
        /\ returned.ret.rev_requests <= 1
        /\ Throttles > 3 =>
              /\ ~returned.ret.success
              /\ returned.ret.rev_requests = 0
              /\ returned.ret.result =
                    IF remote.throttles[4] = 429
                    THEN "Rate limited - max retries exceeded"
                    ELSE "Service unavailable - max retries exceeded"

\* C7 witness: the diagnostic fetch has given up after three retries on a remote that
\* answered 503, 503, 503 and then 429
C7_Witness ==
    /\ returned.variant = "diagnostic"
    /\ remote.throttles = <<503, 503, 503, 429>>
    /\ returned.ret.sleeps = <<5, 15, 45>>
    /\ returned.ret.requests = 4
    /\ returned.ret.result = "Rate limited - max retries exceeded"

\* the remote's final answer is a transport failure or an HTTP status in the set
TransportFailureOrStatus(codes) ==
    \/ remote.final.kind \in {"timeout", "connection"}
    \/ remote.final.kind = "http" /\ remote.final.status_code \in codes

\* C8 (as claimed): a first answer that is a timeout, a connection failure or any
\* HTTP status outside 2xx other than 429/503 ends the fetch as a failure after
\* exactly one request and without a backoff sleep
C8_AnyNon2xxIsTerminal ==
    (Called /\ Throttles = 0
       /\ TransportFailureOrStatus(OtherStatusCodes \ (200..299))) =>
        /\ ~returned.ret.success
        /\ returned.ret.requests = 1
        /\ returned.ret.rev_requests = 0
        /\ returned.ret.sleeps = <<>>

\* C8 (amended): a timeout, a connection failure or a 4xx/5xx status other than
\* 429/503 ends the fetch as a failure at once, whatever the body: no retry and no
\* sleep on its account, no further request; received as the first answer, exactly
\* one request was made
C8_ErrorStatusIsTerminal ==
    (FinalReceived /\ TransportFailureOrStatus(OtherStatusCodes \cap (400..599))) =>
        /\ ~returned.ret.success
        /\ NoRetryOfFinal
        /\ returned.ret.rev_requests = 0
        /\ Throttles = 0 => returned.ret.requests = 1 /\ returned.ret.sleeps = <<>>

\* C8 witness: the primary fetch has failed on a first answer of status 500 whose
\* body is a complete article
C8_Witness ==
    /\ returned.variant = "primary"
    /\ remote.throttles = <<>>
    /\ remote.final.kind = "http"
    /\ remote.final.status_code = 500
    /\ remote.final.body = [json |-> TRUE, pages |-> TRUE, missing |-> FALSE,
                            invalid |-> FALSE, extract |-> TRUE,
                            disambiguation |-> FALSE]
    /\ ~returned.ret.success
    /\ returned.ret.requests = 1

\* the remote's final answer is a well-formed 2xx response
WellFormed2xx ==
    /\ remote.final.kind = "http"
    /\ remote.final.status_code \in 200..299
    /\ remote.final.body.json

NoPageSet == WellFormed2xx /\ ~remote.final.body.pages

PageMissing == WellFormed2xx /\ remote.final.body.pages /\ remote.final.body.missing

EmptyExtract ==
    /\ WellFormed2xx
    /\ remote.final.body.pages
    /\ ~remote.final.body.missing
    /\ ~remote.final.body.extract

\* the call failed with the reason, without a retry on account of the final answer
FailsWith(reason) ==
    /\ ~returned.ret.success
    /\ returned.ret.result = reason
    /\ NoRetryOfFinal

\* C9 (as claimed): both variants answer a well-formed 2xx response without a
\* page-set with "Empty API response", one whose page is marked missing with "Page
\* does not exist (404)" and one whose extract is empty with "Empty article
\* content", each on the first attempt
C9_SameReasonsInBothVariants ==
    FinalReceived =>
        /\ NoPageSet => FailsWith("Empty API response")
        /\ PageMissing => FailsWith("Page does not exist (404)")
        /\ EmptyExtract => FailsWith("Empty article content")

ClaimedReasons ==
    {"Empty API response", "Page does not exist (404)", "Empty article content"}

\* C9 (amended): both variants answer a missing page-set with "Empty API response"
\* and a missing page with "Page does not exist (404)", on the first attempt and
\* without a further request; the primary fetch answers an empty extract with
\* "Empty article content"; the diagnostic fetch never returns that reason: for an
\* empty extract it fails with a reason that is none of the three, after at most one
\* raw-revision request and no retry
C9_ReasonsPerVariant ==
    FinalReceived =>
        /\ NoPageSet => FailsWith("Empty API response") /\ returned.ret.rev_requests = 0
        /\ PageMissing =>
              FailsWith("Page does not exist (404)") /\ returned.ret.rev_requests = 0
        /\ (EmptyExtract /\ returned.variant = "primary") =>
              FailsWith("Empty article content") /\ returned.ret.rev_requests = 0
        /\ returned.variant = "diagnostic" => returned.ret.result # "Empty article content"
        /\ (EmptyExtract /\ returned.variant = "diagnostic") =>
              /\ ~returned.ret.success
              /\ returned.ret.result \notin ClaimedReasons
              /\ NoRetryOfFinal
              /\ returned.ret.rev_requests =
                    IF remote.final.body.invalid \/ remote.final.body.disambiguation
                    THEN 0 ELSE 1

\* C9 witness: the diagnostic fetch has classified an empty extract as a redirect
\* after its raw-revision request
C9_Witness ==
    /\ returned.variant = "diagnostic"
    /\ remote.throttles = <<>>
    /\ EmptyExtract
    /\ ~remote.final.body.invalid
    /\ ~remote.final.body.disambiguation
    /\ remote.rev = "redirect"
    /\ returned.ret.result = "Page is a redirect"
    /\ returned.ret.rev_requests = 1

(***************************************************************************)
(* Properties of the drivers' error handling.                              *)
(***************************************************************************)
\* the loop has just handled a terminal error of the item before idx
ItemErrorHandled == run # "none" /\ pc = "loop" /\ idx > 1 /\ "error" \in ops

\* the key of that item, and the checkpoint file of the running pipeline
HandledKey ==
    CASE run = "primary" -> Key(Items[idx - 1].book_id, Items[idx - 1].url)
      [] run = "retry" -> failed_entries[idx - 1]
      [] OTHER -> article_files[idx - 1]

Checkpoint == IF run = "validate" THEN validation_progress_file ELSE progress_file

\* C10 (as claimed): in the primary pipeline, the retry pass and the validation, a
\* terminal error of an item never ends the run, and once the driver has gone on to
\* the next item the key of the failed item is in the persisted checkpoint with
\* status failed
C10_ItemErrorsAreCheckpointed ==
    /\ prev # "validate_aborted"
    /\ ItemErrorHandled => HasStatus(Checkpoint.data, HandledKey, "failed")

(***************************************************************************)
(* Properties of the outcome of an item of the primary pipeline.           *)
(***************************************************************************)
\* the step takes an item of the primary pipeline up to its record call
ItemAttempted == AtItem /\ pc' = "record"

\* the step is the record call of the item attempted before
ItemRecorded == run = "primary" /\ pc = "record" /\ run' = run

AllocatedFilename ==
    LET lang_key == LangKey(Items[idx].book_id, extract_language_code(Items[idx].url))
    IN Filename(lang_key, Counter(language_counters, lang_key) + 1)

\* C11: an item of the primary pipeline that is not skipped ends in exactly one of
\* two ways.  Saved: the fetch succeeded, the content was written to the file just
\* allocated, nothing was logged, and the checkpoint entry is success with exactly
\* that filename.  Failed (save failed, fetch failed, no title): no article was
\* written, exactly one entry for the item was appended to the error log, and the
\* checkpoint entry is failed with no filename.
C11_ItemOutcome ==
    /\ [][ItemAttempted =>
            /\ pending'.key = ItemKey
            /\ pending'.status \in {"success", "failed"}
            /\ pending'.status = "success" <=> "article_write" \in ops'
            /\ pending'.status = "success" =>
                  /\ "fetch" \in ops'
                  /\ pending'.filename = AllocatedFilename
                  /\ pending'.filename \in DOMAIN articles_dir'
                  /\ articles_dir'[pending'.filename] = ItemKey
                  /\ errors_log' = errors_log
            /\ pending'.status = "failed" =>
                  /\ pending'.filename = None
                  /\ articles_dir' = articles_dir
                  /\ Len(errors_log') = Len(errors_log) + 1
                  /\ SubSeq(errors_log', 1, Len(errors_log)) = errors_log
                  /\ errors_log'[Len(errors_log')].book_id = Items[idx].book_id
                  /\ errors_log'[Len(errors_log')].url = Items[idx].url]_vars
    /\ [][ItemRecorded =>
            /\ progress_file'.state = "json"
            /\ pending.key \in Keys(progress_file'.data)
            /\ Lookup(progress_file'.data, pending.key).status = pending.status
            /\ Lookup(progress_file'.data, pending.key).filename = pending.filename
            /\ articles_dir' = articles_dir
            /\ errors_log' = errors_log
            /\ idx' = idx + 1]_vars

\* C11 witness: on an empty checkpoint the first run has saved the article of
\* 100|https://en.wikipedia.org/wiki/A as 100_en.txt and recorded it so
C11_Witness ==
    /\ runs = 1
    /\ run = "primary"
    /\ idx = 2
    /\ pc = "loop"
    /\ HasStatus(progress_file.data, Key(B100, URL_A), "success")
    /\ Lookup(progress_file.data, Key(B100, URL_A)).filename
          = <<"1", "0", "0", "_", "e", "n", ".", "t", "x", "t">>
    /\ articles_dir[<<"1", "0", "0", "_", "e", "n", ".", "t", "x", "t">>] = Key(B100, URL_A)

(***************************************************************************)
(* Properties of the items whose URL holds no title.                       *)
(***************************************************************************)
\* the URL has no /wiki/ segment that is followed by text
NoTitleIn(url) ==
    \A i \in 1..Len(url) : ~(StartsWithAt(url, i, T_wiki) /\ i + 6 <= Len(url))

\* C12: an item whose URL holds no title is terminal without a fetch request or a
\* retry: the step that takes it up logs the failure, allocates no filename and
\* leaves the driver at the record call for that key with status failed; whenever
\* the primary driver is between two items, every such item before the current one
\* is failed in the checkpoint file.  In the retry pass such an entry is passed
\* over without a request and stays failed in the checkpoint file.
C12_NoTitleIsTerminal ==
    /\ [][(AtItem /\ ~AlreadyProcessed(ItemKey, progress) /\ NoTitleIn(Items[idx].url)
              /\ run' = run) =>
            /\ "fetch" \notin ops'
            /\ errors_log' = Append(errors_log,
                                    LogEntry(Items[idx].book_id, Items[idx].url,
                                             "Could not extract page title"))
            /\ language_counters' = language_counters
            /\ articles_dir' = articles_dir
            /\ idx' = idx
            /\ pc' = "record"
            /\ pending'.key = ItemKey
            /\ pending'.status = "failed"]_vars
    /\ []((run = "primary" /\ pc = "loop") =>
            \A i \in 1..(idx - 1) :
                NoTitleIn(Items[i].url) =>
                    HasStatus(progress_file.data, Key(Items[i].book_id, Items[i].url),
                              "failed"))
    /\ [][(AtEntry /\ NoTitleIn(KeyUrl(EntryKey)) /\ run' = run) =>
            /\ "fetch" \notin ops'
            /\ disk' = disk
            /\ language_counters' = language_counters
            /\ HasStatus(progress_file.data, EntryKey, "failed")
            /\ HasStatus(progress', EntryKey, "failed")
            /\ idx' = idx + 1]_vars

\* C12 witness: the primary pipeline has recorded the URL without a title as failed
\* and stands before the next item, without the delay
C12_Witness ==
    /\ run = "primary"
    /\ pc = "loop"
    /\ idx = 4
    /\ NoTitleIn(Items[3].url)
    /\ ops = {"checkpoint_write", "error"}
    /\ HasStatus(progress_file.data, Key(Items[3].book_id, Items[3].url), "failed")
    /\ errors_log[Len(errors_log)].error = "Could not extract page title"

(***************************************************************************)
(* Properties of the filename allocators.                                  *)
(***************************************************************************)
\* the (book_id, lang) pairs of the work items, as the allocators name them
LangKeys ==
    {LangKey(Items[i].book_id, extract_language_code(Items[i].url)) : i \in DOMAIN Items}

\* the highest n among the files of a pair in the directory: the unsuffixed file
\* counts as 1, no file as 0
MaxObserved(dir, lang_key) ==
    LET seen == {n \in 1..9 : Filename(lang_key, n) \in DOMAIN dir} IN
    IF seen = {} THEN 0 ELSE CHOOSE n \in seen : \A o \in seen : o <= n

\* a run has just started: nothing is allocated yet
BeforeFirstAllocation == run \in {"primary", "retry"} /\ ops = {"load"}

\* C13 (as claimed): when a primary run or a retry pass starts, the counter of each
\* (book_id, lang) pair equals the highest n among the existing files of the pair
C13_CountersSeeded ==
    BeforeFirstAllocation =>
        \A lang_key \in LangKeys :
            Counter(language_counters, lang_key) = MaxObserved(articles_dir, lang_key)

\* "{book_id}_{lang}.txt" for k = 1 and "{book_id}_{lang}_{k}.txt" for k in 2..9
ExpectedName(lang_key, k) ==
    IF k = 1 THEN lang_key \o <<".", "t", "x", "t">>
    ELSE lang_key \o <<"_", Digits[k + 1], ".", "t", "x", "t">>

\* the step allocates a filename: the counter of some pair changes within a run
Allocates == run \in {"primary", "retry"} /\ run' = run /\ language_counters' # language_counters

\* the key of the item the running driver is at
CurrentKey == IF run = "primary" THEN ItemKey ELSE EntryKey

F_100_en == <<"1", "0", "0", "_", "e", "n", ".", "t", "x", "t">>
F_100_en_2 == <<"1", "0", "0", "_", "e", "n", "_", "2", ".", "t", "x", "t">>

\* C14: a primary run starts every counter at 0, and so does a retry pass that
\* finds the output directory empty; an allocation raises the counter of exactly
\* one pair by one, to k, and a file saved on that allocation is named
\* "{book_id}_{lang}.txt" for k = 1 and "{book_id}_{lang}_{k}.txt" for k >= 2 and
\* holds the item's article, every file of another name staying as it was.  In the
\* first run on an empty directory the two URLs of book 100, both en and both
\* fetched, are saved as 100_en.txt and 100_en_2.txt, each holding its own article.
C14_AllocationNames ==
    /\ []((BeforeFirstAllocation /\ (run = "primary" \/ DOMAIN articles_dir = {})) =>
            \A lang_key \in LangKeys : Counter(language_counters, lang_key) = 0)
    /\ [][Allocates =>
            \E lang_key \in LangKeys :
                LET k == Counter(language_counters, lang_key) + 1 IN
                /\ language_counters' = SetCounter(language_counters, lang_key, k)
                /\ k <= 9
                /\ "article_write" \in ops' =>
                      /\ DOMAIN articles_dir' =
                            DOMAIN articles_dir \cup {ExpectedName(lang_key, k)}
                      /\ articles_dir'[ExpectedName(lang_key, k)] = CurrentKey
                      /\ \A f \in DOMAIN articles_dir :
                            f # ExpectedName(lang_key, k) => articles_dir'[f] = articles_dir[f]
                /\ "article_write" \notin ops' => articles_dir' = articles_dir]_vars
    /\ []((runs = 1 /\ HasStatus(progress_file.data, Key(B100, URL_A), "success")
                    /\ HasStatus(progress_file.data, Key(B100, URL_B), "success")) =>
            /\ Lookup(progress_file.data, Key(B100, URL_A)).filename = F_100_en
            /\ Lookup(progress_file.data, Key(B100, URL_B)).filename = F_100_en_2
            /\ DOMAIN articles_dir = {F_100_en, F_100_en_2}
            /\ articles_dir[F_100_en] = Key(B100, URL_A)
            /\ articles_dir[F_100_en_2] = Key(B100, URL_B))

\* C14 witness: the first run has saved both articles of book 100, the second one
\* as 100_en_2.txt
C14_Witness ==
    /\ runs = 1
    /\ HasStatus(progress_file.data, Key(B100, URL_A), "success")
    /\ HasStatus(progress_file.data, Key(B100, URL_B), "success")
    /\ F_100_en_2 \in DOMAIN articles_dir
    /\ articles_dir[F_100_en_2] = Key(B100, URL_B)
    /\ articles_dir[F_100_en] = Key(B100, URL_A)

(***************************************************************************)
(* Properties of the article writes.                                       *)
(***************************************************************************)
\* the step writes the article of the item the driver is at
WritesArticle == run \in {"primary", "retry"} /\ "article_write" \in ops'

\* C15 (as claimed): the article of a key is written to disk at most once across
\* all primary runs and retry passes, terminations included; so no step writes the
\* article of a key while a file that holds the article of that key is on disk
C15_AtMostOneWritePerKey ==
    [][WritesArticle => \A f \in DOMAIN articles_dir : articles_dir[f] # CurrentKey]_vars

(***************************************************************************)
(* Properties of loading the checkpoint.                                   *)
(***************************************************************************)
\* the step starts a run of some pipeline
RunStarts == run = "none" /\ runs' = runs + 1

\* C16 (as claimed): loading the checkpoint is fail-open in the primary pipeline,
\* the retry pass and the validation: no run ends in its load, and a run that
\* finds its checkpoint file missing or holding no JSON document goes on with the
\* empty mapping
C16_LoadIsFailOpen ==
    [][RunStarts =>
          /\ prev' # "retry_crashed"
          /\ (progress_file.state # "json" /\ run' \in {"primary", "retry"}) =>
                progress' = EmptyMap
          /\ (validation_progress_file.state # "json" /\ run' = "validate") =>
                progress_dict' = EmptyMap]_vars

(***************************************************************************)
(* Properties of the checkpoint file at rest.                              *)
(***************************************************************************)
\* the file is absent or holds a JSON document with a complete mapping
ValidAtRest(file) == file.state \in {"missing", "json"}

\* C17 (as claimed): whenever no process is running, also after a termination
\* inside a record call, each checkpoint file that exists holds a JSON document
\* with a complete mapping
C17_CheckpointValidAtRest ==
    run = "none" => ValidAtRest(progress_file) /\ ValidAtRest(validation_progress_file)

(***************************************************************************)
(* Properties of the validation ledgers.                                   *)
(***************************************************************************)
\* the step is a judge call that returned a response
JudgeAnswered == run = "validate" /\ pc = "loop" /\ pc' = "record"

\* the verdict token is YES, in any case
TokenIsYes(token) == token \in {"YES", "yes", "Yes"}

\* the confidence a row carries for a confidence token
ExpectedConfidence(token) ==
    CASE token \in {"HIGH", "high"} -> "HIGH"
      [] token \in {"LOW", "low"} -> "LOW"
      [] OTHER -> "MEDIUM"

RowFilenames(ledger) == {ledger.rows[i].filename : i \in DOMAIN ledger.rows}

\* the verdict that memory or the record call in progress holds for a filename
VerdictOf(filename) ==
    IF pc = "record" /\ pending.key = filename THEN pending.status
    ELSE IF filename \in Keys(progress_dict) THEN Lookup(progress_dict, filename).verdict
    ELSE "none"

\* C18: a judge response yields exactly one row in exactly one ledger: the match
\* ledger if the verdict token is YES in any case, the mismatch ledger if it is NO or
\* missing; the row is for the article judged and carries the parsed confidence
\* (MEDIUM when there is none); the record call that follows writes a checkpoint
\* entry keyed by the filename with the same verdict and adds no row; during a run
\* no filename has two rows, and every row's verdict is the one recorded
C18_OneRowPerVerdict ==
    /\ [][JudgeAnswered =>
            LET response == remote'.response
                ledger == IF TokenIsYes(response.verdict) THEN matches_file
                          ELSE mismatches_file
                ledgerAfter == IF TokenIsYes(response.verdict) THEN matches_file'
                               ELSE mismatches_file'
                row == ledgerAfter.rows[Len(ledgerAfter.rows)]
            IN
            /\ Len(ledgerAfter.rows) = Len(ledger.rows) + 1
            /\ SubSeq(ledgerAfter.rows, 1, Len(ledger.rows)) = ledger.rows
            /\ TokenIsYes(response.verdict) => mismatches_file' = mismatches_file
            /\ ~TokenIsYes(response.verdict) => matches_file' = matches_file
            /\ row.filename = CurrentFile
            /\ row.confidence = ExpectedConfidence(response.confidence)
            /\ pending'.key = CurrentFile
            /\ pending'.status = IF TokenIsYes(response.verdict) THEN "match"
                                 ELSE "mismatch"]_vars
    /\ [][(run = "validate" /\ pc = "record" /\ run' = run) =>
            /\ validation_progress_file'.state = "json"
            /\ pending.key \in Keys(validation_progress_file'.data)
            /\ Lookup(validation_progress_file'.data, pending.key).verdict = pending.status
            /\ Lookup(validation_progress_file'.data, pending.key).status = "completed"
            /\ matches_file' = matches_file
            /\ mismatches_file' = mismatches_file]_vars
    /\ [](run = "validate" =>
            /\ Cardinality(RowFilenames(matches_file)) = Len(matches_file.rows)
            /\ Cardinality(RowFilenames(mismatches_file)) = Len(mismatches_file.rows)
            /\ RowFilenames(matches_file) \cap RowFilenames(mismatches_file) = {}
            /\ \A f \in RowFilenames(matches_file) : VerdictOf(f) = "match"
            /\ \A f \in RowFilenames(mismatches_file) : VerdictOf(f) = "mismatch")

\* C18 witness: the answer "VERDICT: NO / CONFIDENCE: LOW" has put a row with
\* confidence LOW into the mismatch ledger, and the checkpoint records a mismatch
C18_Witness ==
    /\ run = "validate"
    /\ pc = "loop"
    /\ mismatches_file.rows # <<>>
    /\ mismatches_file.rows[1].confidence = "LOW"
    /\ matches_file.rows = <<>>
    /\ mismatches_file.rows[1].filename \in Keys(validation_progress_file.data)
    /\ Lookup(validation_progress_file.data, mismatches_file.rows[1].filename).verdict
          = "mismatch"

\* the number of rows the two ledgers on disk hold for a filename
RowCount(filename) ==
    Cardinality({i \in DOMAIN matches_file.rows :
                    matches_file.rows[i].filename = filename})
    + Cardinality({i \in DOMAIN mismatches_file.rows :
                    mismatches_file.rows[i].filename = filename})

\* the rows of a ledger are kept, in their order, by a step
RowsKept(before, after) ==
    /\ Len(after.rows) >= Len(before.rows)
    /\ SubSeq(after.rows, 1, Len(before.rows)) = before.rows

\* C19: after a validation run that ran to its end, every article filename that has
\* a checkpoint entry has exactly one row in the match or mismatch ledger on disk,
\* and no step of any run removes a row that a ledger holds
C19_LedgersCumulative ==
    /\ []((run = "none" /\ prev = "validate_done"
            /\ validation_progress_file.state = "json") =>
            \A f \in Keys(validation_progress_file.data) : RowCount(f) = 1)
    /\ [][RowsKept(matches_file, matches_file')
            /\ RowsKept(mismatches_file, mismatches_file')]_vars

(***************************************************************************)
(* The delay between items.                                                *)
(***************************************************************************)
\* the last step finished an item with one of the outcomes saved, save failed, fetch
\* failed, title-extraction failed (fetch pipelines) or judged, judge error (validation)
ItemFinished ==
    /\ pc = "loop"
    /\ \/ /\ run \in {"primary", "retry"}
          /\ ops \cap {"checkpoint_write", "article_write", "error"} # {}
       \/ /\ run = "validate"
          /\ \/ "checkpoint_write" \in ops
             \/ {"judge", "error"} \subseteq ops

\* C20: when the driver has finished an item, whatever the outcome, it has slept the
\* inter-request delay before it is at the next item
C20_SleepAfterEveryItem == ItemFinished => "sleep" \in ops

(***************************************************************************)
(* Properties of the URL resolution.                                       *)
(***************************************************************************)
\* a resolution call has returned
Resolved == returned # NotCalled /\ returned.variant \in {"validate", "add_urls"}

\* the lines of the links file that are for the requested book
LinesOfBook == {i \in DOMAIN remote.lines : remote.lines[i].book_id = remote.book_id}

\* the candidate URLs of the requested book: those of its last line in the file
Candidates == remote.lines[CHOOSE i \in LinesOfBook : \A j \in LinesOfBook : j <= i].urls

\* the language tag of a candidate URL: en for URL_A and URL_B, de for URL_D
TagOf(url) == IF url = URL_D THEN T_de ELSE T_en

\* C21: for a book_id that no line of the links file names the resolution returns the
\* sentinel "URL_NOT_FOUND"; for a book_id with exactly one candidate URL it returns
\* that URL, whatever language is requested
C21_AbsentAndSingle ==
    Resolved =>
        /\ LinesOfBook = {} =>
              ~returned.ret.raised /\ returned.ret.url = URL_NOT_FOUND
        /\ (LinesOfBook # {} /\ Len(Candidates) = 1) =>
              ~returned.ret.raised /\ returned.ret.url = Candidates[1]

\* C21 witness: the only candidate of the book is German, English is requested, and
\* the German URL is returned
C21_Witness ==
    /\ Resolved
    /\ LinesOfBook # {}
    /\ Candidates = <<URL_D>>
    /\ remote.language = T_en
    /\ returned.ret.url = URL_D

\* the positions of the candidates whose language tag is the requested language
Matching == {i \in DOMAIN Candidates : TagOf(Candidates[i]) = remote.language}

\* C22: for a book_id with two or more candidates the resolution returns the first
\* candidate in list order whose language tag is the requested language, and the
\* first-listed candidate when no tag is; the result is a function of the candidate
\* list and the language alone
C22_FirstMatchElseFirst ==
    (Resolved /\ LinesOfBook # {} /\ Len(Candidates) >= 2) =>
        /\ ~returned.ret.raised
        /\ Matching # {} =>
              returned.ret.url = Candidates[CHOOSE i \in Matching : \A j \in Matching : i <= j]
        /\ Matching = {} => returned.ret.url = Candidates[1]

\* C22 witness: of a German and two English candidates the first English one is
\* returned for English
C22_Witness ==
    /\ Resolved
    /\ LinesOfBook # {}
    /\ Candidates = <<URL_D, URL_A, URL_B>>
    /\ remote.language = T_en
    /\ returned.ret.url = URL_A

\* a state in which no candidate has the requested language and the first is returned
C22_FallbackReached ==
    /\ Resolved
    /\ LinesOfBook # {}
    /\ Candidates = <<URL_B, URL_A>>
    /\ remote.language = T_de
    /\ returned.ret.url = URL_B

\* C26: the resolution returns a URL or the sentinel and never raises, for every
\* links file, book_id and language, a line with an empty URL list included
C26_ResolutionNeverRaises == Resolved => ~returned.ret.raised

(***************************************************************************)
(* Properties of the language tag and of the filename.                     *)
(***************************************************************************)
AllIn(s, class) == \A i \in DOMAIN s : s[i] \in class

\* C23: the language tag of a URL is its host subdomain when the whole subdomain is
\* 2 to 3 lowercase letters (primary pipeline) or two or more lowercase letters and
\* hyphens (retry variant, so that zh-yue and zh-classical come back unchanged), and
\* "unknown" for every other URL
C23_LanguageTag ==
    /\ returned.variant = "language" =>
          returned.ret = IF AllIn(remote.subdomain, LowerChars)
                            /\ Len(remote.subdomain) \in 2..3
                         THEN remote.subdomain ELSE T_unknown
    /\ returned.variant = "retry_language" =>
          returned.ret = IF AllIn(remote.subdomain, LowerOrHyphenChars)
                            /\ Len(remote.subdomain) >= 2
                         THEN remote.subdomain ELSE T_unknown

\* C29: for every filename a fetch pipeline allocates for a book_id and a language tag
\* (the tag "unknown" and hyphenated tags included, with or without numeric suffix)
\* parse_article_filename returns that book_id and that language, never (None, None)
C29_AllocatedNamesParse ==
    returned.variant = "parse" =>
        /\ returned.ret.parsed.ok
        /\ returned.ret.parsed.book_id = B100
        /\ returned.ret.parsed.language = returned.ret.language

(***************************************************************************)
(* Properties of the diagnostic fetch.                                     *)
(***************************************************************************)
\* the diagnostic variant received a well-formed page with an empty extract
DiagnosedEmptyExtract ==
    /\ returned.variant = "diagnostic"
    /\ FinalReceived
    /\ EmptyExtract
    /\ ~remote.final.body.invalid

\* C24: in the diagnostic fetch an empty extract of a page with the disambiguation
\* flag fails as a disambiguation page without a raw-revision request; otherwise one
\* raw-revision request decides between zero-length page, redirect and
\* extract-failed-but-content-exists; and every failure of the diagnostic fetch,
\* exhausted retries included, carries a non-empty diagnostics bundle
C24_DiagnosticClassification ==
    /\ (DiagnosedEmptyExtract /\ remote.final.body.disambiguation) =>
          /\ ~returned.ret.success
          /\ returned.ret.result = "Disambiguation page (no article content)"
          /\ returned.ret.rev_requests = 0
    /\ (DiagnosedEmptyExtract /\ ~remote.final.body.disambiguation) =>
          /\ ~returned.ret.success
          /\ returned.ret.rev_requests = 1
          /\ remote.rev = "size_zero" =>
                returned.ret.result = "Page exists but has zero content"
          /\ remote.rev = "redirect" => returned.ret.result = "Page is a redirect"
          /\ remote.rev = "content" =>
                returned.ret.result
                   = "Page has content but extract failed (likely special page type)"
    /\ (returned.variant = "diagnostic" /\ ~returned.ret.success) =>
          returned.ret.diagnostics # {}

(***************************************************************************)
(* Properties of the end of a validation run.                              *)
(***************************************************************************)
\* C25: a validation run that got through its pass over the articles has written its
\* summary report, for every mix of outcomes: no item processed, no match or no
\* mismatch included
C25_SummaryAfterEveryPass ==
    (run = "none" /\ ops = {"summary"}) => summary_file = runs

(***************************************************************************)
(* Resources of one call of the fetch adapter.                             *)
(***************************************************************************)
RECURSIVE SumOf(_)
SumOf(s) == IF s = <<>> THEN 0 ELSE Head(s) + SumOf(Tail(s))

\* C27: for every sequence of remote answers one call of either variant returns a
\* result (success with content, or failure with a reason); 429 and 503 answers draw
\* on one retry budget, so the call makes at most 4 extract requests, one more than
\* the throttled answers it received, at most 1 raw-revision request, and that only in
\* the diagnostic variant, and sleeps at most 5 + 15 + 45 seconds in all
C27_CallIsBounded ==
    Called =>
        /\ returned.ret.success \in BOOLEAN
        /\ returned.ret.result # ""
        /\ returned.ret.requests = Min(Throttles, MAX_RETRIES) + 1
        /\ returned.ret.requests <= 4
        /\ returned.ret.rev_requests <= (IF returned.variant = "diagnostic" THEN 1 ELSE 0)
        /\ Len(returned.ret.sleeps) = returned.ret.requests - 1
        /\ SumOf(returned.ret.sleeps) <= 5 + 15 + 45

\* C27 witness: a call answered 429, 503, 429 and 503 has made 4 requests and has
\* slept 65 seconds
C27_Witness ==
    /\ Called
    /\ remote.throttles = <<429, 503, 429, 503>>
    /\ returned.ret.requests = 4
    /\ SumOf(returned.ret.sleeps) = 65
    /\ ~returned.ret.success

(***************************************************************************)
(* The frame of a retry pass.                                              *)
(***************************************************************************)
\* the pass writes the checkpoint: save_progress at its end
RetryWritesCheckpoint == run = "retry" /\ run' = "none" /\ prev' = "retry_done"

\* C28: a retry pass writes the checkpoint once, at its end; the file then has the
\* same keys, and an entry differs from the one the pass found only if that one was
\* failed and the new one is success with the filename of an article saved for the
\* key; every other entry has its status, filename and timestamp as before
C28_RetryFrame ==
    /\ [][(run = "retry" /\ ~RetryWritesCheckpoint) => progress_file' = progress_file]_vars
    /\ [][RetryWritesCheckpoint =>
            /\ progress_file'.state = "json"
            /\ Len(progress_file'.data) = Len(progress_file.data)
            /\ \A i \in DOMAIN progress_file.data :
                  LET old == progress_file.data[i]
                      new == progress_file'.data[i]
                  IN
                  \/ new = old
                  \/ /\ old.status = "failed"
                     /\ new.key = old.key
                     /\ new.status = "success"
                     /\ new.filename \in DOMAIN articles_dir
                     /\ articles_dir[new.filename] = old.key
                     /\ new.timestamp = runs]_vars

\* C28 witness: a retry pass has ended; it turned one failed entry of an earlier run
\* into success and left a success entry and a failed entry of that run as they were
C28_Witness ==
    /\ run = "none"
    /\ prev = "retry_done"
    /\ \E i, j, k \in DOMAIN progress_file.data :
          /\ progress_file.data[i].status = "success"
          /\ progress_file.data[i].timestamp = runs
          /\ progress_file.data[j].status = "success"
          /\ progress_file.data[j].timestamp < runs
          /\ progress_file.data[k].status = "failed"
          /\ progress_file.data[k].timestamp < runs

(***************************************************************************)
(* Properties of the judge calls.                                          *)
(***************************************************************************)
\* the step sends the current article to the judge
JudgeCalled == run = "validate" /\ pc = "loop" /\ returned'.variant = "judge"

\* C30: the judge is called at most 3 times for an article, with a sleep of 5 s after
\* the first failed call and of 15 s after the second; when the third call fails the
\* item is counted as an error and gets no ledger row and no checkpoint entry, so
\* that the next run does not skip it: only an article that has a checkpoint entry is
\* skipped, and such an article is never sent to the judge
C30_JudgeAttempts ==
    /\ [](returned.variant = "judge" =>
            /\ returned.ret.sleeps = SubSeq(<<5, 15>>, 1, Min(remote.failures, 2))
            /\ Len(returned.ret.sleeps) + 1 <= 3
            /\ returned.ret.raised <=> remote.failures >= 3)
    /\ [][(JudgeCalled /\ returned'.ret.raised) =>
            /\ stats' = [stats EXCEPT !.errors = @ + 1]
            /\ matches_file' = matches_file
            /\ mismatches_file' = mismatches_file
            /\ validation_progress_file' = validation_progress_file
            /\ progress_dict' = progress_dict
            /\ CurrentFile \notin Keys(load_validation_progress(validation_progress_file'))
            /\ pc' = "loop"
            /\ idx' = idx + 1]_vars
    /\ [][JudgeCalled =>
            /\ CurrentFile \notin Keys(progress_dict)
            /\ CurrentFile \notin Keys(load_validation_progress(validation_progress_file))]_vars
    /\ [][(run = "validate" /\ ops' = {"skip"}) =>
            CurrentFile \in Keys(progress_dict)]_vars
    /\ [][(run = "none" /\ run' = "validate") =>
            progress_dict' = load_validation_progress(validation_progress_file)]_vars

\* C30 witness: the judge has failed three times for an article, after sleeps of 5 s
\* and 15 s; the article is counted as an error and has neither row nor entry
C30_Witness ==
    /\ run = "validate"
    /\ returned.variant = "judge"
    /\ returned.ret.raised
    /\ returned.ret.sleeps = <<5, 15>>
    /\ stats.errors = 1
    /\ matches_file.rows = <<>>
    /\ mismatches_file.rows = <<>>
    /\ article_files[idx - 1] \notin Keys(validation_progress_file.data)

\* a second run judges an article that has no checkpoint entry and skips one that has
C30_SecondRunReached ==
    /\ run = "validate"
    /\ runs = 2
    /\ returned.variant = "judge"
    /\ idx >= 2
    /\ article_files[1] \in Keys(progress_dict)

(***************************************************************************)
(* The counters of a run.                                                  *)
(***************************************************************************)
\* the entries that this run has set in the mapping in memory, by status
SetInThisRun(st) ==
    {i \in DOMAIN progress : progress[i].status = st /\ progress[i].timestamp = runs}

\* the work items before the current one that were in the checkpoint of an earlier run
SkippedSoFar ==
    {i \in 1..(idx - 1) :
        /\ Key(Items[i].book_id, Items[i].url) \in Keys(progress)
        /\ Lookup(progress, Key(Items[i].book_id, Items[i].url)).timestamp < runs}

\* C31: in the primary pipeline, after each work item, total_urls = successful +
\* failed + skipped, total_urls is the number of items gone through, and successful,
\* failed and skipped are the numbers of items of this run with that outcome; in the
\* retry pass total is the number of failed entries found, every entry gone through
\* is counted as successful or still_failed, and at the end total = successful +
\* still_failed
C31_CountersConsistent ==
    /\ (run = "primary" /\ pc = "loop") =>
          /\ stats.total_urls = stats.successful + stats.failed + stats.skipped
          /\ stats.total_urls = idx - 1
          /\ stats.successful = Cardinality(SetInThisRun("success"))
          /\ stats.failed = Cardinality(SetInThisRun("failed"))
          /\ stats.skipped = Cardinality(SkippedSoFar)
    /\ (run = "retry" /\ pc = "loop") =>
          /\ stats.total = Len(failed_entries)
          /\ stats.successful + stats.still_failed = idx - 1
          /\ stats.successful = Cardinality(SetInThisRun("success"))
          /\ idx > Len(failed_entries) =>
                stats.total = stats.successful + stats.still_failed

\* C31 witness: a primary run has gone through all three items, one skipped, one
\* saved and one failed
C31_Witness ==
    /\ run = "primary"
    /\ pc = "loop"
    /\ idx = Len(Items) + 1
    /\ stats.skipped = 1
    /\ stats.successful = 1
    /\ stats.failed = 1

\* a retry pass is at its end with one entry saved and one failed again
C31_RetryEndReached ==
    /\ run = "retry"
    /\ pc = "loop"
    /\ idx > Len(failed_entries)
    /\ stats.total = 2
    /\ stats.successful = 1
    /\ stats.still_failed = 1

====
